---- MODULE Spec2Model ----
(***************************************************************************)
(* Trust-region constrained optimizers of comb_opt: GeneticAlgorithm,      *)
(* MultiArmedBandit and the TrManagerBase they read.                       *)
(*                                                                         *)
(* Tensors of shape (n, num_dims) are sequences of rows; a row is a tuple  *)
(* over 1..NumDims (the source indexes from 0).  Random draws of numpy and *)
(* torch are nondeterministic choices over the support of the draw.        *)
(***************************************************************************)
EXTENDS Integers, Sequences, FiniteSets, Bags, TLC

\* Optional values: None, or Some(v) holding v
None == <<>>
Some(v) == <<v>>
Val(o) == o[1]

\* ------------------------------------------------------------ bounds
\* objective values handed to observe are drawn from MinY..MaxY
MaxY == 1
\* generations (_generate_new_population calls) explored per run of an
\* optimizer with a trust region, and of one without
MaxGen == 2
MaxGenFree == 1
\* restart() calls explored per run
MaxRestart == 1

\* ------------------------------------------------------ search space
\* An all-nominal search space: three dimensions, categories 0..2 each.
lb == <<0, 0, 0>>
ub == <<2, 2, 2>>
NumDims == Len(lb)
Dims == 1..NumDims
Points == {x \in [Dims -> 0..2] : \A i \in Dims : lb[i] <= x[i] /\ x[i] <= ub[i]}
Y == 0..MaxY

\* ---------------------------------------------------------- helpers
Range(s) == {s[i] : i \in DOMAIN s}
MinOf(S) == CHOOSE m \in S : \A v \in S : m <= v
MaxOf(S) == CHOOSE m \in S : \A v \in S : m >= v
Min2(a, b) == IF a <= b THEN a ELSE b
\* s[:n]
Take(s, n) == SubSeq(s, 1, Min2(n, Len(s)))
\* s[n:]
Drop(s, n) == SubSeq(s, Min2(n, Len(s)) + 1, Len(s))
Column(pairs, k) == [i \in DOMAIN pairs |-> pairs[i][k]]

\* utils.distance_metrics.hamming_distance(x1, x2, normalize=False)
hamming_distance(a, b) == Cardinality({i \in DOMAIN a : a[i] # b[i]})

\* argsort: every ordering of the indices that sorts y ascending (neither
\* torch.argsort nor np.argsort is stable by default, ties fall either way)
argsort(y) ==
  {p \in [DOMAIN y -> DOMAIN y] :
     /\ \A i, j \in DOMAIN y : i # j => p[i] # p[j]
     /\ \A i, j \in DOMAIN y : i < j => y[p[i]] <= y[p[j]]}

\* y in ascending order
Sorted(y) == LET p == CHOOSE q \in argsort(y) : TRUE IN [i \in DOMAIN y |-> y[p[i]]]

\* ------------------------------------------------------------- state
VARIABLES
  \* TrManagerBase (None when the optimizer is built without one)
  tr_manager,
  \* GeneticAlgorithm
  pop_size, num_parents, num_elite, store_observations,
  allow_repeating_suggestions, tr_center,
  x_pop, y_pop, x_elite, y_elite, x_queue,
  data_buffer, best_y, best_x,
  \* the call in progress or last made on the GeneticAlgorithm
  pc, x_next, counter,
  \* bookkeeping of the run: generations and restarts so far, the
  \* objective values consumed by, and the queue produced by, the generation
  \* of the last suggest, and the num_elite smallest objective values of all
  \* the populations consumed so far
  n_gen, n_restart, y_consumed, fresh_queue, y_smallest

ga_vars == <<pop_size, num_parents, num_elite, store_observations,
             allow_repeating_suggestions, tr_center,
             x_pop, y_pop, x_elite, y_elite, x_queue,
             data_buffer, best_y, best_x, pc, x_next, counter,
             n_gen, n_restart, y_consumed, fresh_queue, y_smallest>>

VARIABLES
  \* MultiArmedBandit
  batch_size, max_n_iter, resample_tol, noisy_black_box,
  gamma, log_weights, prob_dist,
  \* its OptimizerBase fields: data_buffer, best_y, _best_x
  mab_buffer, mab_best_y, mab_best_x,
  \* the call in progress or last made on the MultiArmedBandit: n_suggestions,
  \* x_next, sample_idx and tol of method_suggest
  mab_pc, n_suggestions, mab_x_next, sample_idx, tol,
  \* its trust region: self.tr_manager (None, or a reference to the manager
  \* tr_manager), self.tr_center and self.fixed_tr_centre_nominal_dims
  mab_tr_manager, mab_tr_center, fixed_tr_centre_nominal_dims,
  \* bookkeeping of the run: calls made so far, the operations completed so
  \* far in order, and whether a row of the suggest in progress or last made
  \* is a fallback draw
  mab_calls, mab_ops, fell_back

mab_vars == <<batch_size, max_n_iter, resample_tol, noisy_black_box,
              gamma, log_weights, prob_dist, mab_buffer, mab_best_y, mab_best_x,
              mab_pc, n_suggestions, mab_x_next, sample_idx, tol,
              mab_tr_manager, mab_tr_center, fixed_tr_centre_nominal_dims,
              mab_calls, mab_ops, fell_back>>

VARIABLES
  \* a TrManagerBase driven by its own caller: its search_space (num_dims,
  \* num_nominal, dtype), its dictionaries and list, its _center (None or a
  \* reference to a tensor) and the rows of its private data_buffer
  search_space, radii, min_radii, max_radii, init_radii, variable_types,
  _center, trm_buffer,
  \* the tensors that exist: tensors[id] holds the dtype and the row of
  \* tensor id, and how the tensor was made
  tensors,
  \* the call last made on the manager: its name, its tensor argument, what
  \* it returned and whether it raised
  last_call,
  \* bookkeeping of the run: the value returned by the last read of center
  \* since center was last set (None when there was no such read), and the
  \* calls made so far
  last_read, trm_calls

trm_vars == <<search_space, radii, min_radii, max_radii, init_radii,
              variable_types, _center, trm_buffer, tensors, last_call,
              last_read, trm_calls>>

VARIABLES
  \* _crossover and _mutate applied on their own: the call made or about to
  \* be made, the rows it is given and the rows it returned
  fn_pc, fn_x1, fn_x2, fn_out

fn_vars == <<fn_pc, fn_x1, fn_x2, fn_out>>

vars == <<tr_manager, ga_vars, mab_vars, trm_vars, fn_vars>>

\* --------------------------------------------------- TrManagerBase
\* A manager after __init__, register_radius('nominal', 0, max, r) and
\* set_center(c).
TrManager(c, r) ==
  [radii |-> ("nominal" :> r), min_radii |-> ("nominal" :> 0),
   max_radii |-> ("nominal" :> NumDims), init_radii |-> ("nominal" :> r),
   variable_types |-> <<"nominal">>, center |-> Some(c), data_buffer |-> {}]

\* TrManagerBase.center (a clone of _center)
center(m) == m.center

\* search_space.num_nominal: every dimension of the space is nominal
num_nominal == NumDims

\* TrManagerBase.get_nominal_radius
get_nominal_radius(m) ==
  IF num_nominal = 1 THEN 1 ELSE m.radii["nominal"]

\* self.tr_manager and self.tr_center of an optimizer built with a manager
manager == Val(tr_manager)
centre == Val(tr_center)

\* ------------------------------------------------ GeneticAlgorithm
\* data_buffer.x: the observed samples (the optimizer reads nothing else of
\* its buffer)
buffer_x(buf) == buf

Permute(s, p) == [i \in DOMAIN p |-> s[p[i]]]

\* lines 208-210: the accumulated population sorted by objective value
sorted_pop == {<<Permute(x_pop, p), Permute(y_pop, p)>> : p \in argsort(y_pop)}

\* lines 213-221: the fitness of each sorted sample
norm_y(y_sorted) ==
  LET min_y == y_sorted[1]
      shifted == IF min_y < 0
                 THEN [i \in DOMAIN y_sorted |-> y_sorted[i] + (0 - min_y)]
                 ELSE y_sorted
      max_y == MaxOf(Range(shifted))
  IN [i \in DOMAIN y_sorted |-> max_y - shifted[i] + 1]

\* lines 224-226 and 248: np.searchsorted(cum_prob, u) for u uniform in [0, 1)
\* returns index i exactly when u falls in the i-th step of cum_prob, which
\* has positive length iff prob[i] > 0
roulette(y_sorted) == {i \in DOMAIN y_sorted : norm_y(y_sorted)[i] > 0}

\* an elite update that forgets the old elite set
elite_update_newest(x_sorted, y_sorted) ==
  {<<Take(x_sorted, num_elite), Take(y_sorted, num_elite)>>}

\* an elite update that merges without sorting
elite_update_unsorted(x_sorted, y_sorted) ==
  IF x_elite = None /\ y_elite = None
  THEN {<<Take(x_sorted, num_elite), Take(y_sorted, num_elite)>>}
  ELSE {<<Take(Val(x_elite) \o Take(x_sorted, num_elite), num_elite),
          Take(Val(y_elite) \o Take(y_sorted, num_elite), num_elite)>>}

\* an elite update that finds the elite set cleared by a restart
elite_update_cleared(x_sorted, y_sorted) ==
  IF (x_elite = None /\ y_elite = None) \/ n_restart > 0
  THEN {<<Take(x_sorted, num_elite), Take(y_sorted, num_elite)>>}
  ELSE LET x_m == Val(x_elite) \o Take(x_sorted, num_elite)
           y_m == Val(y_elite) \o Take(y_sorted, num_elite)
       IN {<<Take(Permute(x_m, p), num_elite), Take(Permute(y_m, p), num_elite)>> :
             p \in argsort(y_m)}

\* lines 228-237: the elite set after merging this generation's best
elite_update(x_sorted, y_sorted) ==
  IF x_elite = None /\ y_elite = None
  THEN {<<Take(x_sorted, num_elite), Take(y_sorted, num_elite)>>}
  ELSE LET x_m == Val(x_elite) \o Take(x_sorted, num_elite)
           y_m == Val(y_elite) \o Take(y_sorted, num_elite)
       IN {<<Take(Permute(x_m, p), num_elite), Take(Permute(y_m, p), num_elite)>> :
             p \in argsort(y_m)}

\* line 243: parents[:num_elite] = x_elite needs num_elite rows, or one row
\* that torch broadcasts
elite_fits(xe) == Len(xe) = num_elite \/ Len(xe) = 1

\* lines 240-249: the parent pools that can be drawn
parent_pools(xe, x_sorted, y_sorted) ==
  {[k \in 1..num_parents |->
      IF k <= num_elite THEN (IF Len(xe) = 1 THEN xe[1] ELSE xe[k])
      ELSE x_sorted[f[k]]] :
     f \in [(num_elite + 1)..num_parents -> roulette(y_sorted)]}

\* x_[:idx] = other[:idx]
SwapHead(a, b, idx) == [i \in DOMAIN a |-> IF i <= idx THEN b[i] ELSE a[i]]

\* np.random.randint(low, high) draws from low..high-1 and raises ValueError
\* when that range is empty
randint(low, high) == low..(high - 1)

\* np.random.randint(low=1, high=num_dims - 1)
cut_indices == randint(1, NumDims - 1)

\* lines 350-354, 356-360: reset d - radius differing coordinates to the centre
project_to_tr(x, c, r) ==
  LET d == hamming_distance(c, x)
      mask == {i \in Dims : x[i] # c[i]}
  IN IF d > r
     THEN {[i \in Dims |-> IF i \in S THEN c[i] ELSE x[i]] :
             S \in {T \in SUBSET mask : Cardinality(T) = d - r}}
     ELSE {x}

\* GeneticAlgorithm._crossover: the pairs <<x1_, x2_>> it can return; a row
\* has num_dims coordinates
_crossover(x1, x2) ==
  UNION {LET a == SwapHead(x1, x2, idx)
             b == SwapHead(x2, x1, idx)
         IN IF tr_manager # None
            THEN project_to_tr(a, centre, get_nominal_radius(manager))
                 \X project_to_tr(b, centre, get_nominal_radius(manager))
            ELSE {<<a, b>>} : idx \in randint(1, Len(x1) - 1)}

\* lines 384, 395: range(int(lb[idx]), int(ub[idx])) without the current value
categories(x, idx) == {j \in lb[idx]..(ub[idx] - 1) : j # x[idx]}

\* GeneticAlgorithm._mutate on one row (map_to_canonical is the identity for
\* an all-nominal space): the rows it can return
_mutate(x) ==
  LET cand == UNION {{[x EXCEPT ![idx] = v] : v \in categories(x, idx)} : idx \in Dims}
  IN IF tr_manager # None
     THEN {c \in cand : hamming_distance(centre, c) <= manager.radii["nominal"]}
     ELSE cand

\* np.random.choice(categories) raises ValueError on an empty array
mutate_raises(x) == \E idx \in Dims : categories(x, idx) = {}

\* lines 278-283, 303-308: the mutated child was not observed before (or,
\* when repeats are allowed, is not an elite sample)
unseen(c, xe) ==
  IF ~allow_repeating_suggestions
  THEN c \notin buffer_x(data_buffer)
  ELSE c \notin Range(xe)

\* line 276: the child is not yet in pop (its unfilled rows are NaN)
not_in_pop(c, pop) == c \notin Range(pop)

\* lines 273-283: child 1 leaves its loop when both checks pass
accept_ch1(c, pop, xe) == not_in_pop(c, pop) /\ unseen(c, xe)

\* lines 299-308: child 2 leaves its loop when it was not observed before
accept_ch2(c, pop, xe) == unseen(c, xe)

\* lines 257-265 (and the re-draws at 288-292, 313-317): every crossover
\* <<ch1, ch2>> of two parents drawn with np.random.randint(0, num_parents)
all_cross(parents) ==
  UNION {_crossover(parents[r1], parents[r2]) : r1 \in DOMAIN parents, r2 \in DOMAIN parents}

\* lines 268-294: <<_ch1, ch2>> when the loop of child 1 ends; the first
\* crossover and every re-draw range over the crossovers in bases
child1_results(pop, bases, xe) ==
  UNION {{<<m, b[2]>> : m \in {c \in _mutate(b[1]) : accept_ch1(c, pop, xe)}} : b \in bases}

\* lines 296-319: _ch2 when the loop of child 2 ends: a mutation of ch2, or,
\* once 100 mutations of ch2 were rejected, of a re-drawn crossover
child2_results(ch2, pop, bases, xe) ==
  LET own == _mutate(ch2)
  IN {c \in own : accept_ch2(c, pop, xe)}
     \cup (IF \E c \in own : ~accept_ch2(c, pop, xe)
           THEN {c \in UNION {_mutate(b[2]) : b \in bases} : accept_ch2(c, pop, xe)}
           ELSE {})

\* one pass of the loop body, lines 257-324: the pairs <<_ch1, _ch2>>
child_pairs(pop, bases, xe) ==
  UNION {{<<r[1], c2>> : c2 \in child2_results(r[2], pop, bases, xe)} :
           r \in child1_results(pop, bases, xe)}

\* lines 256-324: the populations pop the loop can fill
RECURSIVE offspring(_, _, _)
offspring(pop, bases, xe) ==
  IF Len(pop) >= pop_size THEN {pop}
  ELSE UNION {offspring(pop \o <<pr[1], pr[2]>>, bases, xe) :
                pr \in child_pairs(pop, bases, xe)}

\* lines 273-294: no pass of the loop of child 1 can set done: no crossover
\* has an acceptable mutation, so every 100 counted attempts re-draw in vain
loop1_spins(pop, bases, xe) ==
  \A b \in bases : \A c \in _mutate(b[1]) : ~accept_ch1(c, pop, xe)

\* lines 273-276: every mutation of some crossover is already in pop, so the
\* counter never advances and no re-draw happens
loop1_blocked(pop, bases, xe) ==
  \E b \in bases : \A c \in _mutate(b[1]) : ~not_in_pop(c, pop)

\* lines 299-319: the same for child 2
loop2_spins(ch2, pop, bases, xe) ==
  /\ \A c \in _mutate(ch2) : ~accept_ch2(c, pop, xe)
  /\ \A b \in bases : \A c \in _mutate(b[2]) : ~accept_ch2(c, pop, xe)

\* some run of lines 256-324 reaches a loop that spins on its counter
RECURSIVE can_spin(_, _, _)
can_spin(pop, bases, xe) ==
  /\ Len(pop) < pop_size
  /\ \/ loop1_spins(pop, bases, xe)
     \/ \E r \in child1_results(pop, bases, xe) : loop2_spins(r[2], pop, bases, xe)
     \/ \E pr \in child_pairs(pop, bases, xe) : can_spin(pop \o <<pr[1], pr[2]>>, bases, xe)

\* some run of lines 256-324 reaches a loop of child 1 that never counts
RECURSIVE can_block(_, _, _)
can_block(pop, bases, xe) ==
  /\ Len(pop) < pop_size
  /\ \/ (~loop1_spins(pop, bases, xe) /\ loop1_blocked(pop, bases, xe))
     \/ \E pr \in child_pairs(pop, bases, xe) : can_block(pop \o <<pr[1], pr[2]>>, bases, xe)

\* lines 207-249: the elite sets <<x_elite, y_elite>> the sort can leave,
\* each with the crossovers its parent pools admit
selections ==
  UNION {UNION {{<<el[1], el[2], all_cross(parents)>> :
                   parents \in parent_pools(el[1], sp[1], sp[2])} :
                  el \in {e \in elite_update(sp[1], sp[2]) : elite_fits(e[1])}} :
           sp \in sorted_pop}

\* ------------------------------------------- external random draws
\* search_space.sample(n): the draws explored are the duplicate-free rows
\* over this pool of points
SamplePool == {<<1, 2, 0>>, <<2, 1, 1>>}
sample(n) == {q \in [1..n -> SamplePool] : \A i, j \in 1..n : i # j => q[i] # q[j]}

\* tr_utils.sample_numeric_and_nominal_within_tr(x_centre, n_points): rows
\* within the nominal radius of the centre (explored: rows of this pool that
\* differ from each other)
TrSamplePool == {<<1, 0, 0>>, <<0, 0, 2>>}
sample_within_tr(c, m, n) ==
  {q \in [1..n -> {x \in TrSamplePool : hamming_distance(c, x) <= get_nominal_radius(m)}] :
     \A i, j \in 1..n : i # j => q[i] # q[j]}

\* lines 72-99: the initial queue
init_queue(ps, trm) ==
  IF trm # None
  THEN {<<Val(center(Val(trm)))>> \o q :
          q \in sample_within_tr(Val(center(Val(trm))), Val(trm), ps - 1)}
  ELSE sample(ps)

\* a constructor stopped by an assert holds no fields
AssertionError == [raised |-> "AssertionError"]

\* a constructor that keeps num_elite as given
GA_init_as_given(ps, npar, ne, sto, rep, trm, q) ==
  IF trm # None /\ ("nominal" \notin DOMAIN Val(trm).radii \/ center(Val(trm)) = None)
  THEN AssertionError
  ELSE IF ~(npar >= ne)
  THEN AssertionError
  ELSE [pop_size |-> ps, num_parents |-> npar, num_elite |-> ne,
        store_observations |-> sto, allow_repeating_suggestions |-> rep,
        tr_manager |-> trm,
        tr_center |-> IF trm = None THEN None ELSE center(Val(trm)),
        x_pop |-> <<>>, y_pop |-> <<>>, x_elite |-> None, y_elite |-> None,
        x_queue |-> q]

\* a constructor that clears the centre of the manager it was given, as
\* set_center(None) does, after copying it
GA_init_clearing_centre(ps, npar, ne, sto, rep, trm, q) ==
  LET ne2 == IF ne % 2 # 0 THEN ne + 1 ELSE ne
  IN IF trm # None /\ ("nominal" \notin DOMAIN Val(trm).radii \/ center(Val(trm)) = None)
     THEN AssertionError
     ELSE IF ~(npar >= ne2)
     THEN AssertionError
     ELSE [pop_size |-> ps, num_parents |-> npar, num_elite |-> ne2,
           store_observations |-> sto, allow_repeating_suggestions |-> rep,
           tr_manager |-> IF trm = None THEN None
                          ELSE Some([Val(trm) EXCEPT !.center = None]),
           tr_center |-> IF trm = None THEN None ELSE center(Val(trm)),
           x_pop |-> <<>>, y_pop |-> <<>>, x_elite |-> None, y_elite |-> None,
           x_queue |-> q]

\* GeneticAlgorithm.__init__, lines 45-99: the fields it stores, or the
\* assertion that stops it
GA_init(ps, npar, ne, sto, rep, trm, q) ==
  LET ne2 == IF ne % 2 # 0 THEN ne + 1 ELSE ne
  IN IF trm # None /\ ("nominal" \notin DOMAIN Val(trm).radii \/ center(Val(trm)) = None)
     THEN AssertionError
     ELSE IF ~(npar >= ne2)
     THEN AssertionError
     ELSE [pop_size |-> ps, num_parents |-> npar, num_elite |-> ne2,
           store_observations |-> sto, allow_repeating_suggestions |-> rep,
           tr_manager |-> trm,
           tr_center |-> IF trm = None THEN None ELSE center(Val(trm)),
           x_pop |-> <<>>, y_pop |-> <<>>, x_elite |-> None, y_elite |-> None,
           x_queue |-> q]

\* the constructions a run starts from: pop_size, num_parents, num_elite,
\* store_observations, allow_repeating_suggestions, tr_manager
Runs ==
  {<<2, 2, 2, TRUE, FALSE, Some(TrManager(<<0, 0, 0>>, 1))>>,
   <<2, 3, 1, FALSE, TRUE, None>>}

\* the optimizer holds the fields of ga
Holds(ga) ==
  /\ pop_size = ga.pop_size
  /\ num_parents = ga.num_parents
  /\ num_elite = ga.num_elite
  /\ store_observations = ga.store_observations
  /\ allow_repeating_suggestions = ga.allow_repeating_suggestions
  /\ tr_manager = ga.tr_manager
  /\ tr_center = ga.tr_center
  /\ x_pop = ga.x_pop
  /\ y_pop = ga.y_pop
  /\ x_elite = ga.x_elite
  /\ y_elite = ga.y_elite
  /\ x_queue = ga.x_queue

\* OptimizerBase.__init__ and the run's bookkeeping
FreshRun ==
  /\ data_buffer = {}
  /\ best_y = None
  /\ best_x = None
  /\ x_next = <<>>
  /\ counter = 0
  /\ n_gen = 0
  /\ n_restart = 0
  /\ y_consumed = <<>>
  /\ fresh_queue = <<>>
  /\ y_smallest = <<>>

\* neither _crossover nor _mutate is applied on its own
NoFn ==
  /\ fn_pc = "none"
  /\ fn_x1 = <<>>
  /\ fn_x2 = <<>>
  /\ fn_out = <<>>

\* a dictionary without keys
EmptyDict == [t \in {} |-> 0]

\* no TrManagerBase is driven on its own
NoTrm ==
  /\ search_space = [num_dims |-> 0, num_nominal |-> 0, dtype |-> ""]
  /\ radii = EmptyDict
  /\ min_radii = EmptyDict
  /\ max_radii = EmptyDict
  /\ init_radii = EmptyDict
  /\ variable_types = <<>>
  /\ _center = None
  /\ trm_buffer = <<>>
  /\ tensors = <<>>
  /\ last_call = [name |-> "", type |-> "", args |-> <<>>, returned |-> <<>>,
                  raised |-> FALSE]
  /\ last_read = None
  /\ trm_calls = 0

\* no MultiArmedBandit was built
NoMab ==
  /\ batch_size = 0
  /\ max_n_iter = 0
  /\ resample_tol = 0
  /\ noisy_black_box = FALSE
  /\ gamma = <<>>
  /\ log_weights = <<>>
  /\ prob_dist = None
  /\ mab_buffer = EmptyBag
  /\ mab_best_y = None
  /\ mab_best_x = None
  /\ mab_pc = "none"
  /\ n_suggestions = 0
  /\ mab_x_next = <<>>
  /\ sample_idx = 0
  /\ tol = 0
  /\ mab_tr_manager = None
  /\ mab_tr_center = None
  /\ fixed_tr_centre_nominal_dims = None
  /\ mab_calls = 0
  /\ mab_ops = <<>>
  /\ fell_back = FALSE

\* the state after GeneticAlgorithm(search_space, pop_size, num_parents,
\* num_elite, store_observations, allow_repeating_suggestions, tr_manager)
GA_start(runs) ==
  \E run \in runs :
    \E q \in init_queue(run[1], run[6]) :
      /\ GA_init(run[1], run[2], run[3], run[4], run[5], run[6], q) # AssertionError
      /\ Holds(GA_init(run[1], run[2], run[3], run[4], run[5], run[6], q))
      /\ FreshRun
      /\ pc = "idle"
      /\ NoMab
      /\ NoTrm
      /\ NoFn

Init == GA_start(Runs)

\* ------------------------------------------------------- GA actions
\* the generations explored in this run
gen_limit == IF tr_manager # None THEN MaxGen ELSE MaxGenFree

\* line 287, 312: the attempts after which a crossover is re-drawn
RetryLimit == 100

\* y.flatten().argmin(): the index of the first minimal value
argmin(y) == CHOOSE i \in DOMAIN y : \A j \in DOMAIN y : y[i] <= y[j] /\ (j < i => y[j] > y[i])

\* lines 154-160: the rows taken from the current queue
n_first(n) == IF n > 0 /\ Len(x_queue) > 0 THEN Min2(n, Len(x_queue)) ELSE 0

\* method_suggest(n) answered from the queue alone (lines 147-160, 172)
SuggestFromQueue(n) ==
  /\ pc = "idle"
  /\ n <= pop_size
  /\ n - n_first(n) = 0
  /\ x_next' = Take(x_queue, n_first(n))
  /\ x_queue' = Drop(x_queue, n_first(n))
  /\ pc' = "suggested"
  /\ UNCHANGED <<mab_vars, trm_vars, fn_vars>>
  /\ UNCHANGED <<tr_manager, pop_size, num_parents, num_elite, store_observations,
                 allow_repeating_suggestions, tr_center, x_pop, y_pop, x_elite,
                 y_elite, data_buffer, best_y, best_x, counter, n_gen, n_restart,
                 y_consumed, fresh_queue, y_smallest>>

\* lines 165-170 after a generation left the queue pop: rows idx..idx+n-1 of
\* the new queue are returned and dropped
take_rows(pop, idx, n) == SubSeq(pop, idx + 1, idx + n)
drop_rows(pop, idx, n) == Take(pop, idx) \o Drop(pop, idx + n)

\* method_suggest(n) when the queue runs out: lines 147-172 with one pass of
\* the while loop, which runs _generate_new_population (lines 205-331)
SuggestGenerate(n) ==
  /\ pc = "idle"
  /\ n <= pop_size
  /\ n - n_first(n) > 0
  /\ n_gen < gen_limit
  /\ x_pop # <<>>
  /\ cut_indices # {}
  /\ pop_size % 2 = 0
  /\ LET idx == n_first(n)
         head == Take(x_queue, idx)
         n_remaining == n - idx
     IN \E sel \in selections : \E pop \in offspring(<<>>, sel[3], sel[1]) :
          /\ x_elite' = Some(sel[1])
          /\ y_elite' = Some(sel[2])
          /\ x_next' = head \o take_rows(pop, idx, Min2(n_remaining, Len(pop)))
          /\ x_queue' = drop_rows(pop, idx, Min2(n_remaining, Len(pop)))
          /\ fresh_queue' = pop
  /\ x_pop' = <<>>
  /\ y_pop' = <<>>
  /\ y_consumed' = y_pop
  /\ y_smallest' = Take(Sorted(y_smallest \o y_pop), num_elite)
  /\ n_gen' = n_gen + 1
  /\ pc' = "suggested"
  /\ UNCHANGED <<mab_vars, trm_vars, fn_vars>>
  /\ UNCHANGED <<tr_manager, pop_size, num_parents, num_elite, store_observations,
                 allow_repeating_suggestions, tr_center, data_buffer, best_y, best_x,
                 counter, n_restart>>

\* method_suggest(n) when the queue runs out and a deduplication loop of
\* _generate_new_population (lines 273-294, 299-319) cannot set done: the
\* elite set is updated, the call stays in the loop
SuggestSpins(n) ==
  /\ pc = "idle"
  /\ n <= pop_size
  /\ n - n_first(n) > 0
  /\ n_gen < gen_limit
  /\ x_pop # <<>>
  /\ cut_indices # {}
  /\ \E sel \in selections :
       /\ \/ can_spin(<<>>, sel[3], sel[1]) /\ pc' = "dedup"
          \/ can_block(<<>>, sel[3], sel[1]) /\ pc' = "blocked"
       /\ x_elite' = Some(sel[1])
       /\ y_elite' = Some(sel[2])
  /\ x_queue' = Drop(x_queue, n_first(n))
  /\ counter' = 0
  /\ y_smallest' = Take(Sorted(y_smallest \o y_pop), num_elite)
  /\ UNCHANGED <<mab_vars, trm_vars, fn_vars>>
  /\ UNCHANGED <<tr_manager, pop_size, num_parents, num_elite, store_observations,
                 allow_repeating_suggestions, tr_center, x_pop, y_pop, data_buffer,
                 best_y, best_x, x_next, n_gen, n_restart, y_consumed, fresh_queue>>

\* one rejected pass of a spinning deduplication loop: counter += 1 and, at
\* RetryLimit, a new crossover and counter = 0 (lines 284-294, 309-319)
DedupStep ==
  /\ pc = "dedup"
  /\ counter' = IF counter + 1 = RetryLimit THEN 0 ELSE counter + 1
  /\ UNCHANGED <<mab_vars, trm_vars, fn_vars>>
  /\ UNCHANGED <<tr_manager, pop_size, num_parents, num_elite, store_observations,
                 allow_repeating_suggestions, tr_center, x_pop, y_pop, x_elite,
                 y_elite, x_queue, data_buffer, best_y, best_x, pc, x_next, n_gen,
                 n_restart, y_consumed, fresh_queue, y_smallest>>

\* GeneticAlgorithm.observe(x, y) of the rows last suggested (lines 174-203)
Observe(y) ==
  /\ pc = "suggested"
  /\ Len(x_next) = Len(y)
  /\ data_buffer' = IF store_observations \/ ~allow_repeating_suggestions
                    THEN data_buffer \cup Range(x_next)
                    ELSE data_buffer
  /\ x_pop' = x_pop \o x_next
  /\ y_pop' = y_pop \o y
  /\ IF best_y = None \/ y[argmin(y)] < Val(best_y)
     THEN best_y' = Some(y[argmin(y)]) /\ best_x' = Some(x_next[argmin(y)])
     ELSE UNCHANGED <<best_y, best_x>>
  /\ pc' = "idle"
  /\ x_next' = <<>>
  /\ y_consumed' = <<>>
  /\ fresh_queue' = <<>>
  /\ UNCHANGED <<mab_vars, trm_vars, fn_vars>>
  /\ UNCHANGED <<tr_manager, pop_size, num_parents, num_elite, store_observations,
                 allow_repeating_suggestions, tr_center, x_elite, y_elite, x_queue,
                 counter, n_gen, n_restart, y_smallest>>

\* OptimizerBase._restart(): <<data_buffer, best_y, _best_x>> after it; a
\* restart does not clear the observation buffer
_restart(buf, by, bx) == <<buf, by, bx>>

\* a restart that keeps the queue it finds
restart_keeps_queue(ps) == {x_queue}

\* line 144: the queue a restart sets, search_space.sample(pop_size)
restart_queue(ps) == sample(ps)

\* GeneticAlgorithm.restart (lines 138-144)
Restart ==
  /\ pc \in {"idle", "suggested"}
  /\ n_restart < MaxRestart
  /\ data_buffer' = _restart(data_buffer, best_y, best_x)[1]
  /\ best_y' = _restart(data_buffer, best_y, best_x)[2]
  /\ best_x' = _restart(data_buffer, best_y, best_x)[3]
  /\ x_pop' = <<>>
  /\ y_pop' = <<>>
  /\ x_queue' \in restart_queue(pop_size)
  /\ pc' = "idle"
  /\ x_next' = <<>>
  /\ n_restart' = n_restart + 1
  /\ y_consumed' = <<>>
  /\ fresh_queue' = <<>>
  /\ UNCHANGED <<mab_vars, trm_vars, fn_vars>>
  /\ UNCHANGED <<tr_manager, pop_size, num_parents, num_elite, store_observations,
                 allow_repeating_suggestions, tr_center, x_elite, y_elite, counter,
                 n_gen, y_smallest>>

Next ==
  \/ \E n \in 1..pop_size : SuggestFromQueue(n)
  \/ \E n \in 1..pop_size : SuggestGenerate(n)
  \/ \E n \in 1..pop_size : SuggestSpins(n)
  \/ DedupStep
  \/ \E n \in 1..pop_size : \E y \in [1..n -> Y] : Observe(y)
  \/ Restart

Spec == Init /\ [][Next]_vars

\* ------------------------------- generations that raise an exception
\* constructions whose generations can raise: an odd pop_size, and a
\* num_elite (3, made 4) above pop_size
EdgeRuns ==
  {<<3, 2, 2, TRUE, FALSE, Some(TrManager(<<0, 0, 0>>, 1))>>,
   <<2, 4, 3, FALSE, TRUE, None>>}

InitEdge == GA_start(EdgeRuns)

\* method_suggest(n) when the queue runs out and _generate_new_population
\* raises after the elite update: RuntimeError at line 243, where x_elite
\* has neither num_elite rows nor one row, or, for an odd pop_size,
\* IndexError at line 324 on the last pass of the loop, where pop has no
\* row k + 1
SuggestRaises(n) ==
  /\ pc = "idle"
  /\ n <= pop_size
  /\ n - n_first(n) > 0
  /\ n_gen < gen_limit
  /\ x_pop # <<>>
  /\ \E sp \in sorted_pop : \E el \in elite_update(sp[1], sp[2]) :
       /\ \/ /\ ~elite_fits(el[1])
             /\ pc' = "raised RuntimeError"
          \/ /\ elite_fits(el[1])
             /\ cut_indices # {}
             /\ pop_size % 2 = 1
             /\ \E parents \in parent_pools(el[1], sp[1], sp[2]) :
                  offspring(<<>>, all_cross(parents), el[1]) # {}
             /\ pc' = "raised IndexError"
       /\ x_elite' = Some(el[1])
       /\ y_elite' = Some(el[2])
  /\ x_queue' = Drop(x_queue, n_first(n))
  /\ y_smallest' = Take(Sorted(y_smallest \o y_pop), num_elite)
  /\ UNCHANGED <<mab_vars, trm_vars, fn_vars>>
  /\ UNCHANGED <<tr_manager, pop_size, num_parents, num_elite, store_observations,
                 allow_repeating_suggestions, tr_center, x_pop, y_pop, data_buffer,
                 best_y, best_x, x_next, counter, n_gen, n_restart, y_consumed,
                 fresh_queue>>

NextEdge ==
  \/ Next
  \/ \E n \in 1..pop_size : SuggestRaises(n)

SpecEdge == InitEdge /\ [][NextEdge]_vars

\* ------------------------------- a manager shared with its caller
\* The caller keeps the manager it handed to the optimizer and calls it
\* between the optimizer's operations. The optimizer holds the same object
\* in self.tr_manager, and in self.tr_center the row that tr_manager.center
\* returned at line 54.
SharedRuns == {<<2, 2, 2, TRUE, FALSE, Some(TrManager(<<0, 0, 0>>, 1))>>}

\* the centres the caller sets, and the rows and values it appends
NewCentres == {<<2, 1, 1>>}
SharedRows == {<<1, 2, 0>>}
SharedY == {0}

InitShared == GA_start(SharedRuns)

\* the caller calls the manager when no operation of the optimizer is running
between_operations == pc \in {"idle", "suggested"} /\ tr_manager # None

\* set_center(center), lines 37-42, for a row of num_dims coordinates of the
\* space's dtype, or None
manager_set_center(m, c) == [m EXCEPT !.center = c]

\* data_buffer.x_min of the manager's buffer: the row of the smallest y
manager_x_min(buf) ==
  (CHOOSE e \in buf : \A f \in buf : e[2] <= f[2])[1]

\* tr_manager.set_center(c)
ManagerSetCenter(c) ==
  /\ between_operations
  /\ Len(c) = NumDims
  /\ tr_manager' = Some(manager_set_center(manager, Some(c)))
  /\ tr_manager' # tr_manager
  /\ UNCHANGED <<ga_vars, mab_vars, trm_vars, fn_vars>>

\* tr_manager.append(x, y), lines 65-66
ManagerAppend(x, y) ==
  /\ between_operations
  /\ tr_manager' = Some([manager EXCEPT !.data_buffer = @ \cup {<<x, y>>}])
  /\ tr_manager' # tr_manager
  /\ UNCHANGED <<ga_vars, mab_vars, trm_vars, fn_vars>>

\* tr_manager.adjust_tr_center(), lines 89-94, on a buffer that holds a row
ManagerAdjustTrCenter ==
  /\ between_operations
  /\ manager.data_buffer # {}
  /\ tr_manager' = Some(manager_set_center(manager, Some(manager_x_min(manager.data_buffer))))
  /\ tr_manager' # tr_manager
  /\ UNCHANGED <<ga_vars, mab_vars, trm_vars, fn_vars>>

\* tr_manager.restart_tr(), lines 68-75
ManagerRestartTr ==
  /\ between_operations
  /\ tr_manager' =
       Some(manager_set_center(
              [manager EXCEPT !.data_buffer = {},
                              !.radii = [t \in DOMAIN manager.radii |->
                                           IF \E i \in DOMAIN manager.variable_types :
                                                manager.variable_types[i] = t
                                           THEN manager.init_radii[t]
                                           ELSE manager.radii[t]]],
              None))
  /\ tr_manager' # tr_manager
  /\ UNCHANGED <<ga_vars, mab_vars, trm_vars, fn_vars>>

\* the optimizer is not restarted in these runs
NextShared ==
  \/ \E n \in 1..pop_size : SuggestFromQueue(n)
  \/ \E n \in 1..pop_size : SuggestGenerate(n)
  \/ \E n \in 1..pop_size : SuggestSpins(n)
  \/ DedupStep
  \/ \E n \in 1..pop_size : \E y \in [1..n -> Y] : Observe(y)
  \/ \E c \in NewCentres : ManagerSetCenter(c)
  \/ \E x \in SharedRows : \E y \in SharedY : ManagerAppend(x, y)
  \/ ManagerAdjustTrCenter
  \/ ManagerRestartTr

SpecShared == InitShared /\ [][NextShared]_vars

\* ------------------------------------------- GeneticAlgorithm construction
\* the arguments explored for pop_size, and for num_parents and num_elite
CtorPopSizes == 1..2
MaxArg == 5

\* the arguments of a construction about to run
InitCtor ==
  /\ pop_size \in CtorPopSizes
  /\ num_parents \in 0..MaxArg
  /\ num_elite \in 0..MaxArg
  /\ store_observations \in BOOLEAN
  /\ allow_repeating_suggestions = FALSE
  /\ tr_manager \in {None, Some(TrManager(<<0, 0, 0>>, 1))}
  /\ tr_center = None
  /\ x_pop = <<>>
  /\ y_pop = <<>>
  /\ x_elite = None
  /\ y_elite = None
  /\ x_queue = <<>>
  /\ FreshRun
  /\ pc = "new"
  /\ NoMab
  /\ NoTrm
  /\ NoFn

\* GeneticAlgorithm(search_space, pop_size, num_parents, num_elite,
\* store_observations, allow_repeating_suggestions, tr_manager), lines 45-105
Construct ==
  /\ pc = "new"
  /\ \E q \in init_queue(pop_size, tr_manager) :
       LET ga == GA_init(pop_size, num_parents, num_elite, store_observations,
                         allow_repeating_suggestions, tr_manager, q)
       IN IF ga = AssertionError
          THEN /\ pc' = "raised"
               /\ UNCHANGED <<tr_manager, num_elite, tr_center, x_queue>>
          ELSE /\ pc' = "idle"
               /\ tr_manager' = ga.tr_manager
               /\ num_elite' = ga.num_elite
               /\ tr_center' = ga.tr_center
               /\ x_queue' = ga.x_queue
  /\ UNCHANGED <<mab_vars, trm_vars, fn_vars>>
  /\ UNCHANGED <<pop_size, num_parents, store_observations,
                 allow_repeating_suggestions, x_pop, y_pop, x_elite, y_elite,
                 data_buffer, best_y, best_x, x_next, counter, n_gen, n_restart,
                 y_consumed, fresh_queue, y_smallest>>

NextCtor == Construct

SpecCtor == InitCtor /\ [][NextCtor]_vars

\* -------------------------------------------------- MultiArmedBandit
\* Real numbers (gamma, log-weights, probabilities, rewards) are kept in
\* thousandths, rounded towards zero.

\* line 52: n_cats of a search space with nominal_ub = [2, 1]
n_cats == <<3, 2>>
MabDims == 1..Len(n_cats)
MabPoints == {x \in [MabDims -> 0..2] : \A j \in MabDims : x[j] < n_cats[j]}

\* a / b rounded towards zero
Quot(a, b) == IF a >= 0 THEN a \div b ELSE -((-a) \div b)

\* 1000 * np.log(a / b) for the ratios n_cats / batch_size that occur
ln1000(a, b) ==
  CASE a = b -> 0
    [] a = 2 * b -> 693
    [] a = 3 * b -> 1099
    [] 2 * a = 3 * b -> 405

\* np.sqrt of a value given in millionths, in thousandths
sqrt1000(v) == CHOOSE r \in 0..3000 : r * r <= v /\ (r + 1) * (r + 1) > v

\* lines 54-62 (and 247-253): gamma of a dimension with n categories, with
\* best_ube = 2 * max_n_iter / 3 and 2 * (e - 1) = 3.437
gamma_of(n, bs, mni) ==
  IF n > bs
  THEN sqrt1000(((3 * n * ln1000(n, bs) * 100000) \div (3437 * bs * mni)) * 10)
  ELSE sqrt1000(((3 * n * ln1000(n, 1) * 100000) \div (3437 * mni)) * 10)

\* a restart that always takes the batch-size-free rate
gamma_batch_free(n, bs, mni) ==
  sqrt1000(((3 * n * ln1000(n, 1) * 100000) \div (3437 * mni)) * 10)

\* lines 247-253: gamma of a dimension as restart computes it again, from
\* self.batch_size and self.best_ube
gamma_restart(n, bs, mni) ==
  IF n > bs
  THEN sqrt1000(((3 * n * ln1000(n, bs) * 100000) \div (3437 * bs * mni)) * 10)
  ELSE sqrt1000(((3 * n * ln1000(n, 1) * 100000) \div (3437 * mni)) * 10)

\* 1000 * exp(-d / 1000) for d >= 0: e^(-k / 4) from a table, the rest by
\* its Taylor polynomial
exp_neg(d) ==
  LET k == d \div 250
      f == d % 250
      frac == 1000 - f + (f * f) \div 2000 - (f * f * f) \div 6000000
      table == <<1000, 779, 607, 472, 368, 287, 223, 174, 135, 105, 82, 64, 50, 39, 30, 24,
                 18, 14, 11, 9, 7, 5, 4, 3, 2, 2, 2, 1, 1, 1, 1, 0>>
  IN IF k >= Len(table) THEN 0 ELSE (table[k + 1] * frac) \div 1000

\* update_prob_dist, lines 290-300; w / norm is computed on the weights
\* divided by the largest of them
update_prob_dist(lw, gam) ==
  [j \in MabDims |->
     LET m == MaxOf(Range(lw[j]))
         weights == [c \in DOMAIN lw[j] |-> exp_neg(m - lw[j][c])]
         norm == weights[1] + weights[2] + (IF Len(weights) > 2 THEN weights[3] ELSE 0)
     IN [c \in DOMAIN lw[j] |->
           Quot((1000 - gam[j]) * ((1000 * weights[c]) \div norm), 1000)
             + gam[j] \div Len(weights)]]

\* np.random.choice(num_cat, size, p): the categories of positive probability
choice(p) == {c \in 0..(Len(p) - 1) : p[c + 1] > 0}

\* DepRound(p, k): k different categories
DepRound(p, k) ==
  {ht \in [1..k -> 0..(Len(p) - 1)] : \A a, b \in 1..k : a # b => ht[a] # ht[b]}

\* lines 87-95: the columns ht drawn per dimension, as the rows of x_next
draw_batch(pd, n) ==
  LET col(j) == IF 1 < n /\ n < n_cats[j] THEN DepRound(pd[j], n)
                ELSE [1..n -> choice(pd[j])]
  IN {[i \in 1..n |-> [j \in MabDims |-> cols[j][i]]] :
        cols \in {c \in [MabDims -> UNION {col(j) : j \in MabDims}] :
                    \A j \in MabDims : c[j] \in col(j)}}

\* lines 117-119: the row drawn again, one category per dimension
resample(pd) == {x \in MabPoints : \A j \in MabDims : x[j] \in choice(pd[j])}

\* line 149: search_space.transform(search_space.sample(1))[0]
fallback == MabPoints

\* the x of data_buffer
mab_buffer_x(buf) == {p[1] : p \in BagToSet(buf)}
mab_buffer_y(buf) == {p[2] : p \in BagToSet(buf)}

\* a check that looks at the batch only
seen_in_batch(x, idx) ==
  Len(x) > 1 /\ \E k \in DOMAIN x : k # idx + 1 /\ x[k] = x[idx + 1]

\* was_sample_seen, lines 155-170 (sample_idx counts from 0)
was_sample_seen(x, idx) ==
  \/ Len(x) > 1 /\ \E k \in DOMAIN x : k # idx + 1 /\ x[k] = x[idx + 1]
  \/ ~noisy_black_box /\ x[idx + 1] \in mab_buffer_x(mab_buffer)

\* a loop that never falls back
never_gives_up(t) == FALSE

\* line 135: the resampling budget is used up
gave_up(t) == t > resample_tol

\* data_buffer.append(x, y)
RECURSIVE append(_, _, _)
append(buf, x, y) ==
  IF x = <<>> THEN buf
  ELSE append(buf (+) SetToBag({<<Head(x), Head(y)>>}), Tail(x), Tail(y))

\* lines 185-197 and 275-288: <<best_y, _best_x>> after a batch
update_best(by, bx, x, y) ==
  IF by = None \/ y[argmin(y)] < Val(by)
  THEN <<Some(y[argmin(y)]), Some(x[argmin(y)])>>
  ELSE <<by, bx>>

\* lines 207-223: the reward of row _x in dimension dim_dix
mab_reward(buf, _x, dim_dix) ==
  LET rewards == {-p[2] : p \in {q \in BagToSet(buf) : q[1][dim_dix] = _x[dim_dix]}}
      ys == mab_buffer_y(buf)
      neg == {-v : v \in ys}
  IN IF rewards = {} THEN 0
     ELSE IF MaxOf(ys) # MinOf(ys)
          THEN Quot(2000 * (MaxOf(rewards) - MinOf(neg)), MaxOf(neg) - MinOf(neg)) - 1000
          ELSE 1000 * MaxOf(rewards)

\* a value left unclipped
no_clip(v) == v

\* .clip(min=-30, max=30)
clip(v) == IF v < -30000 THEN -30000 ELSE IF v > 30000 THEN 30000 ELSE v

\* lines 226-242 for one dimension: the log-weights after rows ii.. of x
RECURSIVE update_weights(_, _, _, _, _, _)
update_weights(lw, pd, gam, x, rewards, ii) ==
  IF ii > Len(x) THEN lw
  ELSE LET ht == x[ii] + 1
           estimated_reward == Quot(rewards[ii] * 1000, pd[ht])
           whole == Quot(estimated_reward, 1000)
           rest == estimated_reward - 1000 * whole
           step == Quot(Len(x) * (whole * gam + Quot(rest * gam, 1000)), Len(lw))
       IN update_weights([lw EXCEPT ![ht] = clip(lw[ht] + step)], pd, gam, x, rewards, ii + 1)

\* t[dims] for a list of indices dims raises IndexError when an index is
\* past the end of t
IndexError(t, dims) == \E k \in DOMAIN dims : dims[k] >= Len(t)

\* t[dims]: the entries (rows) of t at dims
index(t, dims) == [k \in DOMAIN dims |-> t[dims[k] + 1]]

\* t.unsqueeze(0)
unsqueeze(t) == <<t>>

\* line 72: self.tr_center as the constructor computes it, and whether that
\* raises
init_tr_center(trm, dims) ==
  IF trm = None THEN None
  ELSE Some(index(unsqueeze(Val(center(Val(trm)))), dims))

init_raises(trm, dims) ==
  trm # None /\ IndexError(unsqueeze(Val(center(Val(trm)))), dims)

\* line 78: self.tr_center as update_fixed_tr_manager computes it, and
\* whether that raises
updated_tr_center(trm, dims) ==
  IF trm = None THEN None
  ELSE Some(unsqueeze(index(Val(center(Val(trm))), dims)))

update_raises(trm, dims) ==
  trm # None /\ IndexError(Val(center(Val(trm))), dims)

\* a row that is left where the categorical draw put it
mab_no_projection(x, c, r) == {x}

\* lines 98-108 and 122-130: a row further than the radius from the centre
\* has distance - radius of its differing coordinates reset to the centre
mab_project(x, c, r) ==
  LET mask == {i \in MabDims : x[i] # c[i]}
      distance == hamming_distance(x, c)
  IN IF distance > r
     THEN {[i \in MabDims |-> IF i \in indices THEN c[i] ELSE x[i]] :
             indices \in {T \in SUBSET mask : Cardinality(T) = distance - r}}
     ELSE {x}

\* the rows a drawn row can become: projected when a trust region is set
projected(x) ==
  IF mab_tr_manager = None THEN {x}
  ELSE mab_project(x, Val(mab_tr_center)[1], get_nominal_radius(manager))

\* lines 139-147: sample_numeric_and_nominal_within_tr(x_centre, n_points=1)
mab_sample_within_tr(c, m) ==
  {x \in MabPoints : hamming_distance(x, c) <= get_nominal_radius(m)}

\* np.random.choice raises ValueError for a negative probability
invalid_p(p) == \E c \in DOMAIN p : p[c] < 0

\* no GeneticAlgorithm was built
NoGa ==
  /\ pop_size = 0
  /\ num_parents = 0
  /\ num_elite = 0
  /\ store_observations = FALSE
  /\ allow_repeating_suggestions = FALSE
  /\ tr_center = None
  /\ x_pop = <<>>
  /\ y_pop = <<>>
  /\ x_elite = None
  /\ y_elite = None
  /\ x_queue = <<>>
  /\ FreshRun
  /\ pc = "none"

\* the constructions a run starts from: batch_size, max_n_iter,
\* noisy_black_box, resample_tol
MabRuns == {<<1, 200, FALSE, 1>>, <<2, 3, TRUE, 0>>}

\* a construction with the shortest horizon, max_n_iter = 1
ShortRuns == {<<1, 1, FALSE, 1>>}

\* the trust-region manager of a MultiArmedBandit run, the reference an
\* optimizer holds to it, and the nominal dimensions of the search space
MabManager == Some(TrManager(<<0, 0>>, 1))
the_manager == Some("tr_manager")
nominal_dims == <<0, 1>>

\* calls explored per run, restarts made in a row (a restart that follows a
\* restart is explored beyond MaxCalls), and rows handed to one call
MaxCalls == 2
MaxMabRestart == 2
MaxBatch == 2

\* the objective values a MultiArmedBandit run observes
MabY == {-40, 0, 1}

\* the state after MultiArmedBandit(search_space, batch_size, max_n_iter,
\* noisy_black_box, resample_tol, fixed_tr_manager,
\* fixed_tr_centre_nominal_dims), lines 34-74; line 72 raises IndexError
\* when it indexes the one-row tensor by the nominal dimensions
MAB_init(runs) ==
  /\ NoGa
  /\ NoTrm
  /\ NoFn
  /\ tr_manager = MabManager
  /\ \E run \in runs :
       /\ batch_size = run[1]
       /\ max_n_iter = run[2]
       /\ noisy_black_box = run[3]
       /\ resample_tol = run[4]
       /\ gamma = [j \in MabDims |-> gamma_of(n_cats[j], run[1], run[2])]
  /\ log_weights = [j \in MabDims |-> [c \in 1..n_cats[j] |-> 0]]
  /\ prob_dist = None
  /\ fixed_tr_centre_nominal_dims = Some(nominal_dims)
  /\ \E fixed_tr_manager \in {None, the_manager} :
       LET trm == IF fixed_tr_manager = None THEN None ELSE tr_manager
       IN /\ mab_tr_manager = fixed_tr_manager
          /\ IF init_raises(trm, nominal_dims)
             THEN mab_tr_center = None /\ mab_pc = "raised"
             ELSE mab_tr_center = init_tr_center(trm, nominal_dims) /\ mab_pc = "idle"
  /\ mab_buffer = EmptyBag
  /\ mab_best_y = None
  /\ mab_best_x = None
  /\ n_suggestions = 0
  /\ mab_x_next = <<>>
  /\ sample_idx = 0
  /\ tol = 0
  /\ mab_calls = 0
  /\ mab_ops = <<>>
  /\ fell_back = FALSE

InitMAB == MAB_init(MabRuns)
InitMABShort == MAB_init(ShortRuns)

\* the restarts that end the operations made so far
RECURSIVE trailing_restarts(_)
trailing_restarts(ops) ==
  IF ops # <<>> /\ ops[Len(ops)] = "restart"
  THEN 1 + trailing_restarts(SubSeq(ops, 1, Len(ops) - 1))
  ELSE 0

\* method_suggest(n) up to the loop over the rows (lines 80-110); a draw by
\* np.random.choice raises ValueError when a probability is negative, and
\* DepRound given such probabilities may raise or return
MabSuggest(n) ==
  LET pd == update_prob_dist(log_weights, gamma)
  IN /\ mab_pc = "idle"
     /\ mab_calls < MaxCalls
     /\ mab_calls' = mab_calls + 1
     /\ prob_dist' = Some(pd)
     /\ sample_idx' = 0
     /\ tol' = 0
     /\ fell_back' = FALSE
     /\ \/ /\ \E j \in MabDims : invalid_p(pd[j])
           /\ mab_pc' = "raised"
           /\ n_suggestions' = 0
           /\ mab_x_next' = <<>>
        \/ /\ \A j \in MabDims : invalid_p(pd[j]) => (1 < n /\ n < n_cats[j])
           /\ mab_pc' = "for"
           /\ n_suggestions' = n
           /\ \E drawn \in draw_batch(pd, n) :
                mab_x_next' \in {b \in [1..n -> MabPoints] :
                                   \A i \in 1..n : b[i] \in projected(drawn[i])}
     /\ UNCHANGED <<batch_size, max_n_iter, resample_tol, noisy_black_box, gamma,
                    log_weights, mab_buffer, mab_best_y, mab_best_x,
                    mab_tr_manager, mab_tr_center, fixed_tr_centre_nominal_dims,
                    mab_ops>>
     /\ UNCHANGED <<tr_manager, ga_vars, trm_vars, fn_vars>>

\* line 111: the loop moves to the next row, or line 153 returns x_next
NextRow ==
  IF sample_idx + 1 < n_suggestions
  THEN mab_pc' = "for" /\ sample_idx' = sample_idx + 1 /\ UNCHANGED mab_ops
  ELSE mab_pc' = "suggested" /\ UNCHANGED sample_idx
       /\ mab_ops' = Append(mab_ops, "suggest")

\* lines 111-113: tol = 0 and the first was_sample_seen of a row
MabFor ==
  /\ mab_pc = "for"
  /\ tol' = 0
  /\ IF was_sample_seen(mab_x_next, sample_idx)
     THEN mab_pc' = "while" /\ UNCHANGED <<sample_idx, mab_ops>>
     ELSE NextRow
  /\ UNCHANGED <<batch_size, max_n_iter, resample_tol, noisy_black_box, gamma,
                 log_weights, prob_dist, mab_buffer, mab_best_y, mab_best_x,
                 n_suggestions, mab_x_next, mab_calls,
                 mab_tr_manager, mab_tr_center, fixed_tr_centre_nominal_dims,
                 fell_back>>
  /\ UNCHANGED <<tr_manager, ga_vars, trm_vars, fn_vars>>

\* lines 138-149: the row drawn when the resampling budget is used up
fallback_row ==
  IF mab_tr_manager # None
  THEN mab_sample_within_tr(Val(mab_tr_center)[1], manager)
  ELSE fallback

\* lines 115-151: one pass of the resampling loop
MabWhile ==
  /\ mab_pc = "while"
  /\ IF \E j \in MabDims : invalid_p(Val(prob_dist)[j])
     THEN /\ mab_pc' = "raised"
          /\ UNCHANGED <<tol, mab_x_next, sample_idx, mab_ops, fell_back>>
     ELSE /\ tol' = tol + 1
          /\ \E drawn \in resample(Val(prob_dist)) :
               \E r \in projected(drawn) :
                 LET x1 == [mab_x_next EXCEPT ![sample_idx + 1] = r]
                 IN IF gave_up(tol + 1)
                    THEN /\ \E f \in fallback_row :
                              mab_x_next' = [x1 EXCEPT ![sample_idx + 1] = f]
                         /\ fell_back' = TRUE
                         /\ NextRow
                    ELSE /\ mab_x_next' = x1
                         /\ UNCHANGED fell_back
                         /\ IF was_sample_seen(x1, sample_idx)
                            THEN UNCHANGED <<mab_pc, sample_idx, mab_ops>>
                            ELSE NextRow
  /\ UNCHANGED <<batch_size, max_n_iter, resample_tol, noisy_black_box, gamma,
                 log_weights, prob_dist, mab_buffer, mab_best_y, mab_best_x,
                 n_suggestions, mab_calls,
                 mab_tr_manager, mab_tr_center, fixed_tr_centre_nominal_dims>>
  /\ UNCHANGED <<tr_manager, ga_vars, trm_vars, fn_vars>>

\* the batches observe or initialize is given that suggest did not return
GivenBatches == {<<<<0, 0>>>>, <<<<2, 1>>, <<0, 0>>>>}

\* lines 199-223: mab_rewards, by row and dimension, on the buffer that
\* already holds the batch
mab_rewards(buf, x) ==
  [ii \in DOMAIN x |-> [dim_dix \in MabDims |-> mab_reward(buf, x[ii], dim_dix)]]

\* observe(x, y), lines 172-242: of the rows suggest returned, or of given
\* rows; line 230 raises TypeError while prob_dist is None
MabObserve(x, y) ==
  /\ \/ mab_pc = "suggested" /\ x = mab_x_next /\ UNCHANGED mab_calls
     \/ /\ mab_pc = "idle"
        /\ x \in GivenBatches
        /\ mab_calls < MaxCalls
        /\ mab_calls' = mab_calls + 1
  /\ Len(x) = Len(y)
  /\ mab_buffer' = append(mab_buffer, x, y)
  /\ mab_best_y' = update_best(mab_best_y, mab_best_x, x, y)[1]
  /\ mab_best_x' = update_best(mab_best_y, mab_best_x, x, y)[2]
  /\ IF prob_dist = None
     THEN mab_pc' = "raised" /\ UNCHANGED <<log_weights, mab_ops>>
     ELSE /\ mab_pc' = "idle"
          /\ mab_ops' = Append(mab_ops, "observe")
          /\ log_weights' =
               [dim_dix \in MabDims |->
                  update_weights(log_weights[dim_dix], Val(prob_dist)[dim_dix],
                                 gamma[dim_dix], Column(x, dim_dix),
                                 Column(mab_rewards(append(mab_buffer, x, y), x), dim_dix),
                                 1)]
  /\ n_suggestions' = 0
  /\ mab_x_next' = <<>>
  /\ sample_idx' = 0
  /\ tol' = 0
  /\ UNCHANGED <<batch_size, max_n_iter, resample_tol, noisy_black_box, gamma,
                 prob_dist, mab_tr_manager, mab_tr_center,
                 fixed_tr_centre_nominal_dims, fell_back>>
  /\ UNCHANGED <<tr_manager, ga_vars, trm_vars, fn_vars>>

\* initialize(x, y), lines 263-288
MabInitialize(x, y) ==
  /\ mab_pc = "idle"
  /\ mab_calls < MaxCalls
  /\ mab_calls' = mab_calls + 1
  /\ Len(x) = Len(y)
  /\ mab_buffer' = append(mab_buffer, x, y)
  /\ mab_best_y' = update_best(mab_best_y, mab_best_x, x, y)[1]
  /\ mab_best_x' = update_best(mab_best_y, mab_best_x, x, y)[2]
  /\ mab_ops' = Append(mab_ops, "initialize")
  /\ UNCHANGED <<batch_size, max_n_iter, resample_tol, noisy_black_box, gamma,
                 log_weights, prob_dist, mab_pc, n_suggestions, mab_x_next,
                 sample_idx, tol, mab_tr_manager, mab_tr_center,
                 fixed_tr_centre_nominal_dims, fell_back>>
  /\ UNCHANGED <<tr_manager, ga_vars, trm_vars, fn_vars>>

\* the whole search space, as one batch
all_points == <<<<0, 0>>, <<0, 1>>, <<1, 0>>, <<1, 1>>, <<2, 0>>, <<2, 1>>>>

\* MultiArmedBandit.restart, lines 244-256
MabRestart ==
  /\ mab_pc \in {"idle", "suggested"}
  /\ IF trailing_restarts(mab_ops) = 0
     THEN mab_calls < MaxCalls /\ mab_calls' = mab_calls + 1
     ELSE trailing_restarts(mab_ops) < MaxMabRestart /\ UNCHANGED mab_calls
  /\ mab_buffer' = _restart(mab_buffer, mab_best_y, mab_best_x)[1]
  /\ mab_best_y' = _restart(mab_buffer, mab_best_y, mab_best_x)[2]
  /\ mab_best_x' = _restart(mab_buffer, mab_best_y, mab_best_x)[3]
  /\ gamma' = [j \in MabDims |-> gamma_restart(n_cats[j], batch_size, max_n_iter)]
  /\ log_weights' = [j \in MabDims |-> [c \in 1..n_cats[j] |-> 0]]
  /\ prob_dist' = None
  /\ mab_pc' = "idle"
  /\ n_suggestions' = 0
  /\ mab_x_next' = <<>>
  /\ sample_idx' = 0
  /\ tol' = 0
  /\ mab_ops' = Append(mab_ops, "restart")
  /\ UNCHANGED <<batch_size, max_n_iter, resample_tol, noisy_black_box,
                 mab_tr_manager, mab_tr_center, fixed_tr_centre_nominal_dims,
                 fell_back>>
  /\ UNCHANGED <<tr_manager, ga_vars, trm_vars, fn_vars>>

\* update_fixed_tr_manager(fixed_tr_manager, nominal_dims), lines 76-78: the
\* reference is stored before the centre is indexed
MabUpdateFixedTrManager(fixed_tr_manager) ==
  LET trm == IF fixed_tr_manager = None THEN None ELSE tr_manager
      tc == updated_tr_center(trm, Val(fixed_tr_centre_nominal_dims))
  IN /\ mab_pc = "idle"
     /\ mab_calls < MaxCalls
     /\ mab_calls' = mab_calls + 1
     /\ mab_tr_manager' = fixed_tr_manager
     /\ IF update_raises(trm, Val(fixed_tr_centre_nominal_dims))
        THEN mab_pc' = "raised" /\ UNCHANGED <<mab_tr_center, mab_ops>>
        ELSE /\ mab_tr_center' = tc
             /\ mab_ops' = Append(mab_ops, "update_fixed_tr_manager")
             /\ UNCHANGED mab_pc
     /\ UNCHANGED <<batch_size, max_n_iter, resample_tol, noisy_black_box, gamma,
                    log_weights, prob_dist, mab_buffer, mab_best_y, mab_best_x,
                    n_suggestions, mab_x_next, sample_idx, tol,
                    fixed_tr_centre_nominal_dims, fell_back>>
     /\ UNCHANGED <<tr_manager, ga_vars, trm_vars, fn_vars>>

NextMAB ==
  \/ \E n \in 1..MaxBatch : MabSuggest(n)
  \/ MabFor
  \/ MabWhile
  \/ \E x \in GivenBatches \cup {mab_x_next} : \E y \in [DOMAIN x -> MabY] : MabObserve(x, y)
  \/ \E x \in GivenBatches \cup {all_points} : \E y \in [DOMAIN x -> {0}] \cup [DOMAIN x -> {1}] :
       MabInitialize(x, y)
  \/ MabRestart
  \/ \E fixed_tr_manager \in {None, the_manager} : MabUpdateFixedTrManager(fixed_tr_manager)

SpecMAB == InitMAB /\ [][NextMAB]_vars

\* the same operations on a MultiArmedBandit built with max_n_iter = 1
SpecMABShort == InitMABShort /\ [][NextMAB]_vars

\* method_suggest is one blocking call: once in its loops it keeps running
SpecMABFair == SpecMAB /\ WF_vars(MabFor) /\ WF_vars(MabWhile)

\* ------------------------------------ every operation of both optimizers
\* the rows initialize is given
GivenRows == {<<<<0, 0, 0>>>>}

\* GeneticAlgorithm.initialize(x, y), lines 107-133, explored as the first
\* call on an optimizer; line 108 asserts len(x) < pop_size
Initialize(x, y) ==
  /\ pc = "idle"
  /\ x_pop = <<>>
  /\ data_buffer = {}
  /\ best_y = None
  /\ n_gen = 0
  /\ n_restart = 0
  /\ Len(x) < pop_size
  /\ Len(x) = Len(y)
  /\ data_buffer' = IF store_observations \/ ~allow_repeating_suggestions
                    THEN data_buffer \cup Range(x)
                    ELSE data_buffer
  /\ x_pop' = x_pop \o x
  /\ y_pop' = y_pop \o y
  /\ IF best_y = None \/ y[argmin(y)] < Val(best_y)
     THEN best_y' = Some(y[argmin(y)]) /\ best_x' = Some(x[argmin(y)])
     ELSE UNCHANGED <<best_y, best_x>>
  /\ UNCHANGED <<mab_vars, trm_vars, fn_vars>>
  /\ UNCHANGED <<tr_manager, pop_size, num_parents, num_elite, store_observations,
                 allow_repeating_suggestions, tr_center, x_elite, y_elite, x_queue,
                 pc, x_next, counter, n_gen, n_restart, y_consumed, fresh_queue,
                 y_smallest>>

\* the arguments of the constructions of Runs, about to run
InitNew ==
  /\ \E run \in Runs :
       /\ pop_size = run[1]
       /\ num_parents = run[2]
       /\ num_elite = run[3]
       /\ store_observations = run[4]
       /\ allow_repeating_suggestions = run[5]
       /\ tr_manager = run[6]
  /\ tr_center = None
  /\ x_pop = <<>>
  /\ y_pop = <<>>
  /\ x_elite = None
  /\ y_elite = None
  /\ x_queue = <<>>
  /\ FreshRun
  /\ pc = "new"
  /\ NoMab
  /\ NoTrm
  /\ NoFn

InitAll == InitNew \/ InitMAB

NextAll ==
  \/ Construct
  \/ \E x \in GivenRows : \E y \in [DOMAIN x -> Y] : Initialize(x, y)
  \/ Next
  \/ NextMAB

\* a GeneticAlgorithm from its construction on, or a MultiArmedBandit, under
\* every operation
SpecAll == InitAll /\ [][NextAll]_vars

\* ------------------------------------------- TrManagerBase on its own
\* A TrManagerBase and the caller that drives it: the caller makes tensors,
\* hands them to the manager, reads the centre and writes in place to the
\* tensors it holds.

\* tensors that exist at a time, and calls explored per run
MaxTensors == 3
MaxTrmCalls == 5
\* register_radius calls that succeed, and rows appended, per run
MaxTypes == 2
MaxTrmBuffer == 1

VariableTypes == {"nominal", "numeric"}
Dtypes == {"float32", "float64"}

\* __init__ (line 24): dtype, handed to the private data_buffer
dtype == "float32"

\* the search spaces a manager is built on: two dimensions, one or both of
\* them nominal
SearchSpaces ==
  {[num_dims |-> 2, num_nominal |-> n, dtype |-> d] : n \in {1, 2}, d \in Dtypes}

\* the min_radius, max_radius and init_radius register_radius is given:
\* accepted ones, one with init_radius = min_radius and one with
\* init_radius > max_radius
RadiusArgs == {<<0, 2, 1>>, <<0, 2, 2>>, <<1, 2, 1>>, <<0, 1, 2>>}

\* the rows of the tensors the caller makes, and of the rows appended
CallerRows == {<<0, 0>>, <<1>>}
BufferRows == {<<1, 0>>, <<1, 1>>}

tensor(dt, v, how) == [dtype |-> dt, value |-> v, made |-> how]

\* Tensor.to(dtype): the tensor itself when it has the dtype already, a new
\* tensor of that dtype otherwise; the tensors that exist afterwards and the
\* one returned
to(ts, id, dt) ==
  IF ts[id].dtype = dt THEN <<ts, id>>
  ELSE <<Append(ts, tensor(dt, ts[id].value, "to")), Len(ts) + 1>>

\* Tensor.clone(): a new tensor of the same dtype and row
clone(ts, id) ==
  <<Append(ts, tensor(ts[id].dtype, ts[id].value, "clone")), Len(ts) + 1>>

\* d[k] = v
put(d, k, v) == [t \in DOMAIN d \cup {k} |-> IF t = k THEN v ELSE d[t]]

\* set_center(center), lines 37-42: whether the assertion of line 41 fails,
\* and the tensors and _center it leaves
set_center_raises(ts, c) ==
  c # None /\ Len(ts[Val(c)].value) # search_space.num_dims

set_center(ts, c) ==
  IF c = None THEN <<ts, None>>
  ELSE LET r == to(ts, Val(c), search_space.dtype) IN <<r[1], Some(r[2])>>

\* the row a read of center returns, None when there is no centre
center_value(ts, c) == IF c = None THEN None ELSE Some(ts[Val(c)].value)

\* data_buffer.x_min: the row of the smallest y
x_min(buf) ==
  LET i == CHOOSE k \in DOMAIN buf : \A j \in DOMAIN buf : buf[k][2] <= buf[j][2]
  IN buf[i][1]

\* a call, or a step of the caller, is recorded
Called(name, type, args, returned, raised) ==
  /\ trm_calls < MaxTrmCalls
  /\ trm_calls' = trm_calls + 1
  /\ last_call' = [name |-> name, type |-> type, args |-> args,
                   returned |-> returned, raised |-> raised]

\* TrManagerBase.__init__, lines 22-35
InitTR ==
  /\ tr_manager = None
  /\ NoGa
  /\ NoMab
  /\ NoFn
  /\ search_space \in SearchSpaces
  /\ radii = EmptyDict
  /\ min_radii = EmptyDict
  /\ max_radii = EmptyDict
  /\ init_radii = EmptyDict
  /\ variable_types = <<>>
  /\ _center = None
  /\ trm_buffer = <<>>
  /\ tensors = <<>>
  /\ last_call = [name |-> "__init__", type |-> "", args |-> <<>>,
                  returned |-> <<>>, raised |-> FALSE]
  /\ last_read = None
  /\ trm_calls = 0

\* the caller makes a tensor: torch.tensor(v, dtype=dt)
NewTensor(dt, v) ==
  /\ Len(tensors) < MaxTensors
  /\ tensors' = Append(tensors, tensor(dt, v, "caller"))
  /\ Called("tensor", "", <<Len(tensors) + 1>>, <<>>, FALSE)
  /\ UNCHANGED <<search_space, radii, min_radii, max_radii, init_radii,
                 variable_types, _center, trm_buffer, last_read>>
  /\ UNCHANGED <<tr_manager, ga_vars, mab_vars, fn_vars>>

\* the caller writes v to coordinate i of a tensor it holds: one it made or
\* one a read of center returned
Mutate(id, i, v) ==
  /\ id \in DOMAIN tensors
  /\ tensors[id].made \in {"caller", "clone"}
  /\ i \in DOMAIN tensors[id].value
  /\ v # tensors[id].value[i]
  /\ tensors' = [tensors EXCEPT ![id].value[i] = v]
  /\ Called("mutate", "", <<id>>, <<>>, FALSE)
  /\ UNCHANGED <<search_space, radii, min_radii, max_radii, init_radii,
                 variable_types, _center, trm_buffer, last_read>>
  /\ UNCHANGED <<tr_manager, ga_vars, mab_vars, fn_vars>>

\* set_center(center), lines 37-42, given None or a tensor the caller holds
SetCenter(c) ==
  /\ c # None => /\ Val(c) \in DOMAIN tensors
                 /\ tensors[Val(c)].made \in {"caller", "clone"}
  /\ Len(set_center(tensors, c)[1]) <= MaxTensors
  /\ IF set_center_raises(tensors, c)
     THEN /\ Called("set_center", "", c, <<>>, TRUE)
          /\ UNCHANGED <<tensors, _center, last_read>>
     ELSE /\ tensors' = set_center(tensors, c)[1]
          /\ _center' = set_center(tensors, c)[2]
          /\ last_read' = None
          /\ Called("set_center", "", c, <<>>, FALSE)
  /\ UNCHANGED <<search_space, radii, min_radii, max_radii, init_radii,
                 variable_types, trm_buffer>>
  /\ UNCHANGED <<tr_manager, ga_vars, mab_vars, fn_vars>>

\* the property center, lines 44-49
ReadCenter ==
  /\ IF _center = None
     THEN /\ Called("center", "", <<>>, <<>>, FALSE)
          /\ UNCHANGED tensors
     ELSE /\ Len(tensors) < MaxTensors
          /\ tensors' = clone(tensors, Val(_center))[1]
          /\ Called("center", "", <<>>, <<clone(tensors, Val(_center))[2]>>, FALSE)
  /\ last_read' = Some(center_value(tensors, _center))
  /\ UNCHANGED <<search_space, radii, min_radii, max_radii, init_radii,
                 variable_types, _center, trm_buffer>>
  /\ UNCHANGED <<tr_manager, ga_vars, mab_vars, fn_vars>>

\* an assertion that lets init_radius equal min_radius
radius_accepted_from_min(min_radius, max_radius, init_radius) ==
  min_radius <= init_radius /\ init_radius <= max_radius

\* line 57: assert min_radius < init_radius <= max_radius
radius_accepted(min_radius, max_radius, init_radius) ==
  min_radius < init_radius /\ init_radius <= max_radius

\* register_radius(variable_type, min_radius, max_radius, init_radius),
\* lines 51-64
RegisterRadius(variable_type, min_radius, max_radius, init_radius) ==
  /\ IF ~radius_accepted(min_radius, max_radius, init_radius)
     THEN /\ Called("register_radius", variable_type,
                    <<min_radius, max_radius, init_radius>>, <<>>, TRUE)
          /\ UNCHANGED <<radii, min_radii, max_radii, init_radii, variable_types>>
     ELSE /\ Len(variable_types) < MaxTypes
          /\ variable_types' = Append(variable_types, variable_type)
          /\ radii' = put(radii, variable_type, init_radius)
          /\ init_radii' = put(init_radii, variable_type, init_radius)
          /\ min_radii' = put(min_radii, variable_type, min_radius)
          /\ max_radii' = put(max_radii, variable_type, max_radius)
          /\ Called("register_radius", variable_type,
                    <<min_radius, max_radius, init_radius>>, <<>>, FALSE)
  /\ UNCHANGED <<search_space, _center, trm_buffer, tensors, last_read>>
  /\ UNCHANGED <<tr_manager, ga_vars, mab_vars, fn_vars>>

\* append(x, y), lines 66-67
TrmAppend(x, y) ==
  /\ Len(trm_buffer) < MaxTrmBuffer
  /\ trm_buffer' = Append(trm_buffer, <<x, y>>)
  /\ Called("append", "", <<>>, <<>>, FALSE)
  /\ UNCHANGED <<search_space, radii, min_radii, max_radii, init_radii,
                 variable_types, _center, tensors, last_read>>
  /\ UNCHANGED <<tr_manager, ga_vars, mab_vars, fn_vars>>

\* radii that a restart leaves where they are
radii_kept(r, types) == r

\* lines 72-73: every radius of variable_types back to its init_radii
reset_radii(r, types) ==
  [t \in DOMAIN r |-> IF t \in Range(types) THEN init_radii[t] ELSE r[t]]

\* data_buffer.restart(): the buffer without rows
data_buffer_restart(buf) == <<>>

\* restart_tr(), lines 69-75
RestartTr ==
  /\ trm_buffer' = data_buffer_restart(trm_buffer)
  /\ radii' = reset_radii(radii, variable_types)
  /\ tensors' = set_center(tensors, None)[1]
  /\ _center' = set_center(tensors, None)[2]
  /\ last_read' = None
  /\ Called("restart_tr", "", <<>>, <<>>, FALSE)
  /\ UNCHANGED <<search_space, min_radii, max_radii, init_radii, variable_types>>
  /\ UNCHANGED <<tr_manager, ga_vars, mab_vars, fn_vars>>

\* adjust_tr_radii(y), lines 81-87, as a subclass implements it: a radius
\* of a registered type moves within its bounds
AdjustTrRadii ==
  /\ \E t \in DOMAIN radii : \E r \in min_radii[t]..max_radii[t] :
       /\ r # radii[t]
       /\ radii' = put(radii, t, r)
       /\ Called("adjust_tr_radii", t, <<r>>, <<>>, FALSE)
  /\ UNCHANGED <<search_space, min_radii, max_radii, init_radii, variable_types,
                 _center, trm_buffer, tensors, last_read>>
  /\ UNCHANGED <<tr_manager, ga_vars, mab_vars, fn_vars>>

\* adjust_tr_center(), lines 89-94, on a buffer that holds a row: x_min is a
\* tensor of the buffer's dtype
AdjustTrCenter ==
  /\ trm_buffer # <<>>
  /\ LET ts == Append(tensors, tensor(dtype, x_min(trm_buffer), "x_min"))
         c == Some(Len(ts))
     IN /\ Len(set_center(ts, c)[1]) <= MaxTensors
        /\ tensors' = set_center(ts, c)[1]
        /\ _center' = set_center(ts, c)[2]
  /\ last_read' = None
  /\ Called("adjust_tr_center", "", <<>>, <<>>, FALSE)
  /\ UNCHANGED <<search_space, radii, min_radii, max_radii, init_radii,
                 variable_types, trm_buffer>>
  /\ UNCHANGED <<tr_manager, ga_vars, mab_vars, fn_vars>>

\* get_nominal_radius(), lines 109-118: whether the assertion of line 117
\* fails, and the value returned
nominal_radius_raises ==
  search_space.num_nominal # 1 /\ "nominal" \notin DOMAIN radii

nominal_radius ==
  IF search_space.num_nominal = 1 THEN 1 ELSE radii["nominal"]

GetNominalRadius ==
  /\ IF nominal_radius_raises
     THEN Called("get_nominal_radius", "", <<>>, <<>>, TRUE)
     ELSE Called("get_nominal_radius", "", <<>>, <<nominal_radius>>, FALSE)
  /\ UNCHANGED <<search_space, radii, min_radii, max_radii, init_radii,
                 variable_types, _center, trm_buffer, tensors, last_read>>
  /\ UNCHANGED <<tr_manager, ga_vars, mab_vars, fn_vars>>

NextTR ==
  \/ \E dt \in Dtypes : \E v \in CallerRows : NewTensor(dt, v)
  \/ \E id \in 1..MaxTensors : \E i \in 1..2 : \E v \in 0..1 : Mutate(id, i, v)
  \/ \E c \in {None} \cup {Some(id) : id \in 1..MaxTensors} : SetCenter(c)
  \/ ReadCenter
  \/ \E t \in VariableTypes : \E a \in RadiusArgs : RegisterRadius(t, a[1], a[2], a[3])
  \/ \E x \in BufferRows : \E y \in Y : TrmAppend(x, y)
  \/ RestartTr
  \/ AdjustTrRadii
  \/ AdjustTrCenter
  \/ GetNominalRadius

SpecTR == InitTR /\ [][NextTR]_vars

\* ------------------------------- _crossover and _mutate on their own
\* An optimizer without a trust region applies _crossover to two parents,
\* or _mutate to a row, of its search space: the three-dimensional space of
\* lb and ub, or a two-dimensional space of the same categories.
FnRows == Points \cup [1..2 -> 0..2]

InitFn ==
  /\ tr_manager = None
  /\ NoGa
  /\ NoMab
  /\ NoTrm
  /\ fn_pc = "given"
  /\ fn_x1 \in FnRows
  /\ fn_x2 \in FnRows
  /\ Len(fn_x1) = Len(fn_x2)
  /\ fn_out = <<>>

\* _crossover(x1, x2), lines 333-369, without a tr_manager: line 364 raises
\* ValueError when there is no cut index to draw
Crossover ==
  /\ fn_pc = "given"
  /\ IF randint(1, Len(fn_x1) - 1) = {}
     THEN fn_pc' = "crossover raised" /\ UNCHANGED fn_out
     ELSE /\ \E r \in _crossover(fn_x1, fn_x2) : fn_out' = <<r[1], r[2]>>
          /\ fn_pc' = "crossed"
  /\ UNCHANGED <<fn_x1, fn_x2>>
  /\ UNCHANGED <<tr_manager, ga_vars, mab_vars, trm_vars>>

\* _mutate(x) of one row, lines 371-400, without a tr_manager: line 396
\* raises ValueError when the coordinate drawn has no other category
Mutation ==
  /\ fn_pc = "given"
  /\ Len(fn_x1) = NumDims
  /\ \/ /\ mutate_raises(fn_x1)
        /\ fn_pc' = "mutate raised"
        /\ UNCHANGED fn_out
     \/ /\ \E m \in _mutate(fn_x1) : fn_out' = <<m>>
        /\ fn_pc' = "mutated"
  /\ UNCHANGED <<fn_x1, fn_x2>>
  /\ UNCHANGED <<tr_manager, ga_vars, mab_vars, trm_vars>>

NextFn == Crossover \/ Mutation

SpecFn == InitFn /\ [][NextFn]_vars

\* ------------------------------------------------- GeneticAlgorithm claims
\* the <<x, y>> pairs of two aligned sequences
Pairs(xs, ys) == {<<xs[i], ys[i]>> : i \in DOMAIN xs}

\* C1: without repeats allowed, in a run of suggest calls each followed by
\* observe of the returned rows, suggest returns no row twice within a call
\* and no row that an earlier observe was given
C1_NoRepeatedSuggestion ==
  (pc = "suggested" /\ ~allow_repeating_suggestions /\ n_restart = 0) =>
    /\ \A i, j \in DOMAIN x_next : i # j => x_next[i] # x_next[j]
    /\ \A i \in DOMAIN x_next : x_next[i] \notin buffer_x(data_buffer)

\* C2: with a trust-region manager, after any suggest, observe and restart
\* calls every row suggest returns is within get_nominal_radius() of the
\* trust-region centre
C2_SuggestionsInsideTrustRegion ==
  (pc = "suggested" /\ tr_manager # None) =>
    \A i \in DOMAIN x_next :
      hamming_distance(Val(center(manager)), x_next[i]) <= get_nominal_radius(manager)

\* C3: a deduplication loop of _generate_new_population ends through its
\* attempt counter: the pass that brings the counter to RetryLimit leaves
\* the loop
C3_LoopEndsAtRetryLimit ==
  [][(pc = "dedup" /\ counter + 1 = RetryLimit) => pc' # "dedup"]_vars

\* C6: a generation that finds an elite set leaves one whose best objective
\* value is no worse: min(y_elite) after the step <= min(y_elite) before it
C6_EliteNeverWorsens ==
  [][(y_elite # None /\ y_elite' # None) =>
       MinOf(Range(Val(y_elite'))) <= MinOf(Range(Val(y_elite)))]_vars

\* a second generation consumed a population whose values are all worse
\* than the best elite value
C6_WorsePopulationConsumed ==
  /\ pc = "suggested"
  /\ n_gen = 2
  /\ y_consumed # <<>>
  /\ y_elite # None
  /\ MinOf(Range(y_consumed)) > MinOf(Range(Val(y_elite)))

\* C8: suggest(n) returns n rows in queue order: the head of the current
\* queue and then the first rows of the freshly generated queue, so the rows
\* returned followed by the rows left queued are the old queue followed by
\* the fresh one
C8_SuggestInQueueOrder ==
  [][(pc = "idle" /\ pc' = "suggested") =>
       /\ Len(x_next') = Len(x_next' \o x_queue') - Len(x_queue')
       /\ x_next' \o x_queue' = x_queue \o fresh_queue']_vars

\* C9: in a run of alternating suggest and observe calls, a generation
\* consumes exactly pop_size observations
C9_GenerationConsumesFullPopulation ==
  (pc = "suggested" /\ n_restart = 0 /\ y_consumed # <<>>) =>
    Len(y_consumed) = pop_size

\* C10: after a generation y_elite holds the num_elite smallest objective
\* values of all the populations generations consumed so far, and every
\* elite sample keeps the value it was observed with
C10_EliteIsSmallestConsumed ==
  /\ [](y_elite # None =>
          /\ Sorted(Val(y_elite)) = y_smallest
          /\ Len(Val(x_elite)) = Len(Val(y_elite)))
  /\ [][(y_elite' # None /\ pc = "idle") =>
          Pairs(Val(x_elite'), Val(y_elite')) \subseteq
            Pairs(x_pop, y_pop)
              \cup (IF y_elite = None THEN {} ELSE Pairs(Val(x_elite), Val(y_elite)))]_vars

\* a second generation replaced an elite sample by a better one of the
\* population it consumed
C10_BetterSampleEntersElite ==
  /\ pc = "suggested"
  /\ n_gen = 2
  /\ y_elite = Some(<<0, 1>>)
  /\ Range(y_consumed) = {0, 1}

C4_ResamplingEnds ==
  /\ [](tol <= resample_tol + 1)
  /\ [](mab_pc = "suggested" => Len(mab_x_next) = n_suggestions)
  /\ (mab_pc \in {"for", "while"} ~> mab_pc = "suggested")

\* suggest returned after a row used up its resampling budget, every point
\* of the search space being in the data buffer
C4_FallbackOnExhaustedSpace ==
  /\ mab_pc = "suggested"
  /\ tol = resample_tol + 1
  /\ ~noisy_black_box
  /\ mab_buffer_x(mab_buffer) = MabPoints

\* C5: an observe that raises has changed no state: the data buffer, the
\* best x and y and the log-weights are as before the call
C5_FailingObserveChangesNothing ==
  [][mab_pc' = "raised" =>
       UNCHANGED <<mab_buffer, mab_best_y, mab_best_x, log_weights>>]_vars

\* the step is an observe that completed
ObserveStep == mab_ops' = Append(mab_ops, "observe")

\* C11: an observe after which all objective values in the data buffer are
\* equal computes reward 0 for every sample and dimension, so it changes no
\* log-weight
C11_DegenerateRewardIsZero ==
  [][(ObserveStep /\ Cardinality(mab_buffer_y(mab_buffer')) = 1) =>
       log_weights' = log_weights]_vars

\* |a - b| is at most the rounding of the fixed-point arithmetic
Near(a, b) == a - b <= 2 /\ b - a <= 2

\* C12: an observe of one suggested row raises the log-weight of the row's
\* category in every dimension j by batch_size * reward * gamma[j] /
\* n_cats[j], clipped to [-30, 30], reward being the row's reward in j
C12_WeightStepIsBatchSizeRewardGamma ==
  [][(mab_pc = "suggested" /\ ObserveStep /\ Len(mab_x_next) = 1) =>
       \A j \in MabDims :
         LET c == mab_x_next[1][j] + 1
             reward == mab_rewards(mab_buffer', mab_x_next)[1][j]
         IN Near(log_weights'[j][c],
                 clip(log_weights[j][c]
                        + Quot(batch_size * reward * gamma[j], 1000 * n_cats[j])))]_vars

\* C13: after any suggest, observe, initialize and restart calls every
\* log-weight of every dimension lies in [-30, 30]
C13_LogWeightsClipped ==
  \A j \in DOMAIN log_weights : \A c \in DOMAIN log_weights[j] :
    -30000 <= log_weights[j][c] /\ log_weights[j][c] <= 30000

\* an observe took a log-weight to the upper bound: the weight was below 30
\* and the step would have carried it beyond
C13_WeightReachedBound ==
  /\ mab_ops # <<>>
  /\ mab_ops[Len(mab_ops)] = "observe"
  /\ \E j \in MabDims : \E c \in DOMAIN log_weights[j] : log_weights[j][c] = 30000

\* the sum of the entries of a sequence of integers
RECURSIVE Sum(_)
Sum(p) == IF p = <<>> THEN 0 ELSE Head(p) + Sum(Tail(p))

\* C14: after update_prob_dist, in every dimension j the probabilities sum
\* to 1 (up to the rounding of each entry) and every entry is at least gamma[j] / n_cats[j],
\* hence not negative
C14_ProbDistAboveFloor ==
  prob_dist # None =>
    \A j \in MabDims :
      /\ Sum(Val(prob_dist)[j]) - 1000 <= 2 * n_cats[j]
      /\ 1000 - Sum(Val(prob_dist)[j]) <= 2 * n_cats[j]
      /\ \A c \in DOMAIN Val(prob_dist)[j] :
           /\ Val(prob_dist)[j][c] >= gamma[j] \div n_cats[j]
           /\ Val(prob_dist)[j][c] >= 0

\* C15: with a fixed trust-region manager, every row of a suggest that
\* comes from the categorical draw or from collision resampling is within
\* get_nominal_radius() of the trust-region centre
C15_MabRowsInsideTrustRegion ==
  (mab_tr_manager # None /\ mab_pc \in {"for", "while", "suggested"} /\ ~fell_back) =>
    \A i \in DOMAIN mab_x_next :
      hamming_distance(mab_x_next[i], Val(mab_tr_center)[1]) <= get_nominal_radius(manager)

\* in a suggest of two rows inside a trust region the first row collided
\* with the second, was drawn again without a fallback draw, and lies on the
\* border of the region
C15_ResampledInsideTrustRegion ==
  /\ mab_tr_manager # None
  /\ mab_pc = "for"
  /\ n_suggestions = 2
  /\ sample_idx = 1
  /\ tol = 1
  /\ ~fell_back
  /\ hamming_distance(mab_x_next[1], Val(mab_tr_center)[1]) = get_nominal_radius(manager)

\* C16: the rows of a suggest(n) in which no row is a fallback draw are
\* pairwise distinct, and unless the black box is noisy none of them is an
\* observed point
C16_MabRowsDistinctAndUnseen ==
  (mab_pc = "suggested" /\ ~fell_back) =>
    /\ \A i, k \in DOMAIN mab_x_next : i # k => mab_x_next[i] # mab_x_next[k]
    /\ ~noisy_black_box =>
         \A i \in DOMAIN mab_x_next : mab_x_next[i] \notin mab_buffer_x(mab_buffer)

\* a suggest of two rows returned without a fallback draw after its last
\* row, which collided with an observed point, was drawn again
C16_ResampledPastObservedPoint ==
  /\ mab_pc = "suggested"
  /\ ~noisy_black_box
  /\ ~fell_back
  /\ n_suggestions = 2
  /\ tol >= 1
  /\ mab_buffer # EmptyBag

\* ------------------------------------------ GeneticAlgorithm.restart claims
\* the step is a restart
RestartStep == n_restart' = n_restart + 1

\* C18: restart() clears the elite set: after it x_elite and y_elite hold no
\* samples
C18_RestartClearsElite ==
  [][RestartStep => (x_elite' = None /\ y_elite' = None)]_vars

\* C18 as the code has it: restart() leaves the elite set as it was, and a
\* generation after a restart merges that elite set with the population it
\* consumes: every elite sample comes from one of the two, and the best
\* elite value is no worse than before
C18_EliteOutlivesRestart ==
  /\ [][RestartStep => (x_elite' = x_elite /\ y_elite' = y_elite)]_vars
  /\ [][(n_restart >= 1 /\ y_elite # None /\ y_elite' # None) =>
          /\ Pairs(Val(x_elite'), Val(y_elite')) \subseteq
               Pairs(x_pop, y_pop) \cup Pairs(Val(x_elite), Val(y_elite))
          /\ MinOf(Range(Val(y_elite'))) <= MinOf(Range(Val(y_elite)))]_vars

\* a generation after a restart kept an elite sample that is better than
\* every observation made since the restart
C18_OldEliteBeatsNewPopulation ==
  /\ pc = "suggested"
  /\ n_restart = 1
  /\ y_consumed # <<>>
  /\ y_elite # None
  /\ MinOf(Range(Val(y_elite))) < MinOf(Range(y_consumed))

\* C19: restart() empties x_pop and y_pop, replaces the queue by pop_size
\* freshly sampled points, and leaves the elite set, the tr_manager and
\* tr_center as they were
C19_RestartResetsPopulationOnly ==
  [][RestartStep =>
       /\ x_pop' = <<>>
       /\ y_pop' = <<>>
       /\ Len(x_queue') = pop_size
       /\ x_queue' \in sample(pop_size)
       /\ UNCHANGED <<x_elite, y_elite, tr_manager, tr_center>>]_vars

\* an optimizer with a trust region and an elite set has just restarted
C19_RestartedWithElite ==
  /\ pc = "idle"
  /\ n_restart = 1
  /\ n_gen >= 1
  /\ tr_manager # None
  /\ y_elite # None
  /\ x_pop = <<>>
  /\ Len(x_queue) = pop_size

MabRestartStep == mab_ops' = Append(mab_ops, "restart")

\* C20: MAB restart() is idempotent: a restart leaves the gamma computed at
\* construction, log-weights that are all zero and no prob_dist, and a
\* restart that directly follows a restart changes none of the three
C20_MabRestartIdempotent ==
  [][MabRestartStep =>
       /\ gamma' = [j \in MabDims |-> gamma_of(n_cats[j], batch_size, max_n_iter)]
       /\ \A j \in MabDims : \A c \in DOMAIN log_weights'[j] : log_weights'[j][c] = 0
       /\ prob_dist' = None
       /\ (trailing_restarts(mab_ops) >= 1 =>
             UNCHANGED <<gamma, log_weights, prob_dist>>)]_vars

\* two restarts in a row after an observed batch, where gamma depends on
\* the batch size
C20_RestartedTwiceAfterObserve ==
  /\ Len(mab_ops) >= 4
  /\ mab_ops[Len(mab_ops)] = "restart"
  /\ mab_ops[Len(mab_ops) - 1] = "restart"
  /\ mab_ops[Len(mab_ops) - 2] = "observe"
  /\ \E j \in MabDims : n_cats[j] > batch_size /\ batch_size > 1

C25_OffspringDistinctAndUnseen ==
  (pc = "suggested" /\ fresh_queue # <<>> /\ ~allow_repeating_suggestions) =>
    /\ \A i, j \in DOMAIN fresh_queue : i # j => fresh_queue[i] # fresh_queue[j]
    /\ \A i \in DOMAIN fresh_queue : fresh_queue[i] \notin buffer_x(data_buffer)

\* x with coordinate i replaced by another value of the inclusive domain
\* lb[i]..ub[i]
one_coordinate_changed(x) ==
  UNION {{[x EXCEPT ![i] = v] : v \in (lb[i]..ub[i]) \ {x[i]}} : i \in Dims}

\* C26: without a trust region, for every row x whose coordinates lie in
\* their domains, the possible results of _mutate are exactly the rows x
\* with one coordinate i replaced by a value v of lb[i]..ub[i] other than
\* x[i]
C26_MutateDrawsAnyOtherCategory ==
  fn_pc = "mutated" =>
    /\ fn_out[1] \in one_coordinate_changed(fn_x1)
    /\ _mutate(fn_x1) = one_coordinate_changed(fn_x1)

\* C27: for every pair of parents in a search space with num_dims >= 2,
\* _crossover draws a cut index c with 1 <= c < num_dims - 1 and returns
\* child1 = parent2[:c] + parent1[c:] and child2 = parent1[:c] + parent2[c:]
C27_CrossoverSwapsHeads ==
  (fn_pc \in {"crossed", "crossover raised"} /\ Len(fn_x1) >= 2) =>
    /\ fn_pc = "crossed"
    /\ \E c \in 1..(Len(fn_x1) - 2) :
         /\ fn_out[1] = Take(fn_x2, c) \o Drop(fn_x1, c)
         /\ fn_out[2] = Take(fn_x1, c) \o Drop(fn_x2, c)

\* a suggest whose _generate_new_population got past the selection of the
\* parents returns or raises
GenerationEnds ==
  pc = "idle" /\ (n_gen' = n_gen + 1 \/ pc' = "raised IndexError")

\* C28: for every pop_size accepted by the constructor (even or odd),
\* _generate_new_population ends with a queue of exactly pop_size offspring,
\* every coordinate of every offspring a value of its domain, and with x_pop
\* and y_pop empty
C28_GenerationFillsQueue ==
  [][GenerationEnds =>
       /\ pc' = "suggested"
       /\ Len(fresh_queue') = pop_size
       /\ \A i \in DOMAIN fresh_queue' : fresh_queue'[i] \in Points
       /\ x_pop' = <<>>
       /\ y_pop' = <<>>]_vars

\* a suggest that runs _generate_new_population
GenerationStep ==
  pc = "idle" /\ (n_gen' = n_gen + 1 \/ pc' \in {"raised IndexError", "raised RuntimeError"})

\* C29: under the driver protocol (suggest(n) with 1 <= n <= pop_size, then
\* observe of exactly the returned points, repeated), suggest never raises:
\* every _generate_new_population it triggers finds an accumulated
\* population of at least num_elite observations
C29_SuggestNeverRaises ==
  /\ [](n_restart = 0 => pc \notin {"raised IndexError", "raised RuntimeError"})
  /\ [][(GenerationStep /\ n_restart = 0) => Len(x_pop) >= num_elite]_vars

\* ---------------------------------------------- TrManagerBase claims
\* a step that is the call of the given name
TrmStep(name) == trm_calls' = trm_calls + 1 /\ last_call'.name = name

\* C21: register_radius(type, min, max, init) succeeds and records radius =
\* init together with init, min and max for that type only if
\* min < init <= max; otherwise it fails and leaves radii, init_radii,
\* min_radii, max_radii and variable_types unchanged
C21_RegisterRadiusChecksBounds ==
  [][TrmStep("register_radius") =>
       LET t == last_call'.type
           a == last_call'.args
       IN IF a[1] < a[3] /\ a[3] <= a[2]
          THEN /\ ~last_call'.raised
               /\ radii'[t] = a[3] /\ init_radii'[t] = a[3]
               /\ min_radii'[t] = a[1] /\ max_radii'[t] = a[2]
               /\ variable_types' = Append(variable_types, t)
               /\ \A u \in DOMAIN radii \ {t} :
                    /\ radii'[u] = radii[u] /\ init_radii'[u] = init_radii[u]
                    /\ min_radii'[u] = min_radii[u] /\ max_radii'[u] = max_radii[u]
          ELSE /\ last_call'.raised
               /\ UNCHANGED <<radii, init_radii, min_radii, max_radii,
                              variable_types>>]_vars

\* a register_radius with init_radius = min_radius has failed on a manager
\* that already holds a radius
C21_RejectedAfterAccepted ==
  /\ last_call.name = "register_radius"
  /\ last_call.raised
  /\ last_call.args[1] = last_call.args[3]
  /\ variable_types # <<>>

\* the caller writes to a tensor made the given way
MutateStep(how) ==
  TrmStep("mutate") /\ tensors[last_call'.args[1]].made = how

\* a write by the caller to a tensor that center returned leaves the row
\* of the centre as it was
CloneWriteKeepsCentre ==
  [][MutateStep("clone") =>
       center_value(tensors', _center') = center_value(tensors, _center)]_vars

\* a read of center returns what the read before it returned, when no
\* set_center, adjust_tr_center or restart_tr was called in between
ReadsAgree ==
  [][(TrmStep("center") /\ last_read # None) => last_read' = last_read]_vars

\* C22: the value read from TrManagerBase.center is a copy: mutating a
\* tensor obtained from the accessor never changes what a later read of
\* center returns, and two reads with no intervening set_center,
\* adjust_tr_center or restart_tr return equal values
C22_CenterReadIsACopy == CloneWriteKeepsCentre /\ ReadsAgree

\* C30: set_center(c) stores its own copy of c: mutating the tensor c after
\* the call does not change the value later returned by center
C30_SetCenterStoresACopy ==
  [][MutateStep("caller") =>
       center_value(tensors', _center') = center_value(tensors, _center)]_vars

\* C23: get_nominal_radius() returns 1 when the search space has exactly
\* one nominal dimension and otherwise the current radii['nominal']; when no
\* 'nominal' radius was ever registered the call fails, for every search
\* space
C23_NominalRadiusOrFailure ==
  [][TrmStep("get_nominal_radius") =>
       IF "nominal" \notin DOMAIN radii
       THEN last_call'.raised
       ELSE /\ ~last_call'.raised
            /\ last_call'.returned =
                 IF search_space.num_nominal = 1 THEN <<1>>
                 ELSE <<radii["nominal"]>>]_vars

\* C24: after restart_tr(), from any reachable state of a manager, its
\* private data buffer is empty, radii[t] equals init_radii[t] for every
\* registered type t, and center is None; min_radii, max_radii and
\* init_radii are unchanged
C24_RestartTrResets ==
  [][TrmStep("restart_tr") =>
       /\ trm_buffer' = <<>>
       /\ \A t \in Range(variable_types') : radii'[t] = init_radii'[t]
       /\ DOMAIN radii' = Range(variable_types')
       /\ center_value(tensors', _center') = None
       /\ UNCHANGED <<min_radii, max_radii, init_radii>>]_vars

\* restart_tr has returned on a manager with a registered radius that had
\* taken its centre from its buffer
C24_RestartedAfterRecentring ==
  /\ last_call.name = "restart_tr"
  /\ variable_types # <<>>
  /\ \E id \in DOMAIN tensors : tensors[id].made = "x_min"


\* ------------------------------------------- shared manager claims
\* a generation of offspring ends in this step
OffspringDrawn == n_gen' = n_gen + 1

\* C31: at every suggest the centre the optimizer projects to and rejects
\* against is the manager's current centre: a generation that runs after the
\* caller called set_center, adjust_tr_center or restart_tr on the shared
\* manager uses the centre the manager has then, and when the manager has a
\* centre every offspring lies within the nominal radius of it.
C31_SuggestUsesManagerCentre ==
  /\ [][OffspringDrawn => tr_center = center(manager)]_vars
  /\ [][(OffspringDrawn /\ center(manager) # None) =>
          \A i \in DOMAIN fresh_queue' :
            hamming_distance(Val(center(manager)), fresh_queue'[i])
              <= get_nominal_radius(manager)]_vars

====
